---- MODULE Spec2Model ----
(***************************************************************************)
(* Verification model of the streaming alpha-signal core: candle           *)
(* aggregation, the per-symbol analyzers, the PnL tracker, the backtester  *)
(* and the asynchronous time-series sink.                                  *)
(*                                                                         *)
(* Numbers.  The program computes in IEEE doubles.  The model computes in  *)
(* fixed point: a double x is the integer x * FP, products and quotients   *)
(* are rescaled and truncated toward zero (Mul, Div).  Inputs are chosen   *)
(* so that the quantities the properties speak about are exact.            *)
(***************************************************************************)
EXTENDS Integers, Sequences, FiniteSets, TLC

VARIABLES
    agg,          \* CandleAggregator: hasCandle, candleStart, currentCandle
    emitted,      \* candles handed to onCandleClosed, in emission order
    aggTick,      \* the arguments of the last CandleAggregator::onTick call and the volume fed so far
    pnlTracker_,  \* PnLTracker: cash_, positions_, realizedPnL_, transactions_
    pnlPrice,     \* the one price the PnLTracker scenario trades at
    pnlTrade,     \* the symbol and price of a trade not yet followed by updatePrice
    config_,      \* Backtester: BacktestConfig
    bt,           \* Backtester: currentPosition_, avgEntryPrice_, currentCash_
    btRun,        \* Backtester::run: position in the call and its locals
    btResult,     \* the BacktestResult of the last completed run
    btWalk,       \* Backtester::walkForward: position in the call and its locals
    btLaps,       \* parity of the walkForward loop iterations made
    micro,        \* MicrostructureAnalyzer
    microTicks,   \* number of ticks fed to the MicrostructureAnalyzer
    flow,         \* OrderFlowEngine
    flowLog,      \* OrderFlowEngine: ticks fed and signals returned since reset()
    soak,         \* long feed: an AlphaEngine, an OrderFlowImbalance, the round
    pipe,         \* ProductionAlphaSystem: its analyzers, lastPrice_, tickCount_
    pipeTick,     \* the tick of the last processMarketTick call
    influx,       \* InfluxWriter: writeQueue_, queueMutex_, running_
    threads,      \* InfluxWriter: where the worker and each caller stand
    influxLog,    \* records enqueued so far and those handed to writeToInflux
    feed,         \* BinancePublicFeed: engine_ and aggregator_ and the alphaSystems map
    feedLog,      \* messages handled so far and what the last one did
    stat,         \* performance metrics: a data series and the values computed from it
    vwapCalc,     \* VWAPCalculator
    vwapLog,      \* VWAPCalculator: the volumes fed since construction or the last reset()
    detector,     \* RegimeDetector
    regimeLog,    \* prices received since construction or reset() and calls made
    alphaEngine,  \* AlphaEngine
    alphaLog      \* AlphaEngine: the ticks fed and what the last onTick returned

aggVars == <<agg, emitted, aggTick>>

pnlVars == <<pnlTracker_, pnlPrice, pnlTrade>>

btVars == <<config_, bt, btRun, btResult, btWalk, btLaps>>

microVars == <<micro, microTicks>>

flowVars == <<flow, flowLog>>

soakVars == <<soak>>

pipeVars == <<pipe, pipeTick>>

influxVars == <<influx, threads, influxLog>>

feedVars == <<feed, feedLog>>

statVars == <<stat>>

vwapVars == <<vwapCalc, vwapLog>>

regimeVars == <<detector, regimeLog>>

alphaVars == <<alphaEngine, alphaLog>>

vars == <<agg, emitted, aggTick, pnlTracker_, pnlPrice, pnlTrade, config_, bt, btRun, btResult,
          btWalk, btLaps,
          micro, microTicks, flow, flowLog, soak, pipe, pipeTick,
          influx, threads, influxLog,
          feed, feedLog,
          stat,
          vwapCalc, vwapLog,
          detector, regimeLog,
          alphaEngine, alphaLog>>

\* What each component's actions leave alone.
exceptAgg == <<pnlVars, btVars, microVars, flowVars, soakVars, pipeVars, influxVars, feedVars, statVars, vwapVars, regimeVars, alphaVars>>

exceptPnL == <<aggVars, btVars, microVars, flowVars, soakVars, pipeVars, influxVars, feedVars, statVars, vwapVars, regimeVars, alphaVars>>

exceptBt == <<aggVars, pnlVars, microVars, flowVars, soakVars, pipeVars, influxVars, feedVars, statVars, vwapVars, regimeVars, alphaVars>>

exceptMicro == <<aggVars, pnlVars, btVars, flowVars, soakVars, pipeVars, influxVars, feedVars, statVars, vwapVars, regimeVars, alphaVars>>

exceptFlow == <<aggVars, pnlVars, btVars, microVars, soakVars, pipeVars, influxVars, feedVars, statVars, vwapVars, regimeVars, alphaVars>>

exceptSoak == <<aggVars, pnlVars, btVars, microVars, flowVars, pipeVars, influxVars, feedVars, statVars, vwapVars, regimeVars, alphaVars>>

exceptPipe == <<aggVars, pnlVars, btVars, microVars, flowVars, soakVars, influxVars, feedVars, statVars, vwapVars, regimeVars, alphaVars>>

exceptInflux == <<aggVars, pnlVars, btVars, microVars, flowVars, soakVars, pipeVars, feedVars, statVars, vwapVars, regimeVars, alphaVars>>

exceptFeed == <<aggVars, pnlVars, btVars, microVars, flowVars, soakVars, pipeVars, influxVars, statVars, vwapVars, regimeVars, alphaVars>>

exceptStat == <<aggVars, pnlVars, btVars, microVars, flowVars, soakVars, pipeVars, influxVars, feedVars, vwapVars, regimeVars, alphaVars>>

exceptVwap == <<aggVars, pnlVars, btVars, microVars, flowVars, soakVars, pipeVars, influxVars, feedVars, statVars, regimeVars, alphaVars>>

exceptRegime == <<aggVars, pnlVars, btVars, microVars, flowVars, soakVars, pipeVars, influxVars, feedVars, statVars, vwapVars, alphaVars>>

exceptAlpha == <<aggVars, pnlVars, btVars, microVars, flowVars, soakVars, pipeVars, influxVars, feedVars, statVars, vwapVars, regimeVars>>

----------------------------------------------------------------------------
(* Fixed-point arithmetic *)

FP == 100

Abs(x) == IF x < 0 THEN -x ELSE x

Max(a, b) == IF a >= b THEN a ELSE b

Min(a, b) == IF a <= b THEN a ELSE b

\* C++ integer/duration division truncates toward zero; \div floors.
TruncDiv(a, b) ==
    IF (a >= 0) = (b > 0) \/ a = 0 THEN Abs(a) \div Abs(b) ELSE -(Abs(a) \div Abs(b))

Mul(a, b) == TruncDiv(a * b, FP)

Div(a, b) == TruncDiv(a * FP, b)

Last(s) == s[Len(s)]

----------------------------------------------------------------------------
(* CandleAggregator (src/unnamed/part_000) *)

\* Time is counted in units of 1/TimeUnitsPerSecond seconds, so that the
\* duration_cast to whole seconds truncates.
TimeUnitsPerSecond == 2

IntervalSeconds == 1

MaxAggTicks == 4

MaxTime == 5

AggPrices == {1 * FP, 2 * FP, 3 * FP}

AggVolumes == {1 * FP, 2 * FP}

NoCandle == [open |-> 0, high |-> 0, low |-> 0, close |-> 0, volume |-> 0,
             startTime |-> 0, endTime |-> 0]

AggInit == [hasCandle |-> FALSE, candleStart |-> 0, currentCandle |-> NoCandle]

\* The brace initialisers of lines 22-30 and 61-69.
NewCandle(price, volume, start) ==
    [open |-> price, high |-> price, low |-> price, close |-> price,
     volume |-> volume, startTime |-> start, endTime |-> start]

UpdatedCandle_volumeDropped(c, price, volume, timestamp) ==
    [c EXCEPT !.high = Max(c.high, price),
              !.low = Min(c.low, price),
              !.close = price,
              !.endTime = timestamp]

\* The update without the std::max of line 40.
UpdatedCandle_highNotExtended(c, price, volume, timestamp) ==
    [c EXCEPT !.low = Min(c.low, price),
              !.close = price,
              !.volume = c.volume + volume,
              !.endTime = timestamp]

\* Lines 40-44: the current candle absorbs the tick.
UpdatedCandle(c, price, volume, timestamp) ==
    [c EXCEPT !.high = Max(c.high, price),
              !.low = Min(c.low, price),
              !.close = price,
              !.volume = c.volume + volume,
              !.endTime = timestamp]

\* The elapsed time taken as a distance.
ElapsedSeconds_absolute(timestamp, candleStart) ==
    TruncDiv(Abs(timestamp - candleStart), TimeUnitsPerSecond)

\* Lines 35-37.
ElapsedSeconds(timestamp, candleStart) ==
    TruncDiv(timestamp - candleStart, TimeUnitsPerSecond)

\* onTick with the triggering tick's volume also opening the new candle.
CandleAggregator_onTick_volumeCarried(a, price, volume, timestamp) ==
    IF ~a.hasCandle
    THEN [agg |-> [hasCandle |-> TRUE, candleStart |-> timestamp,
                   currentCandle |-> NewCandle(price, volume, timestamp)],
          out |-> <<>>]
    ELSE LET elapsed == ElapsedSeconds(timestamp, a.candleStart)
             upd == UpdatedCandle(a.currentCandle, price, volume, timestamp)
         IN IF elapsed >= IntervalSeconds
            THEN [agg |-> [hasCandle |-> TRUE, candleStart |-> timestamp,
                           currentCandle |-> NewCandle(price, volume, timestamp)],
                  out |-> <<upd>>]
            ELSE [agg |-> [a EXCEPT !.currentCandle = upd], out |-> <<>>]

\* The whole of onTick: the new aggregator state and the candles it hands to
\* the callback (none or one).
CandleAggregator_onTick(a, price, volume, timestamp) ==
    IF ~a.hasCandle
    THEN [agg |-> [hasCandle |-> TRUE, candleStart |-> timestamp,
                   currentCandle |-> NewCandle(price, volume, timestamp)],
          out |-> <<>>]
    ELSE LET elapsed == ElapsedSeconds(timestamp, a.candleStart)
             upd == UpdatedCandle(a.currentCandle, price, volume, timestamp)
         IN IF elapsed >= IntervalSeconds
            THEN [agg |-> [hasCandle |-> TRUE, candleStart |-> timestamp,
                           currentCandle |-> NewCandle(price, 0, timestamp)],
                  out |-> <<upd>>]
            ELSE [agg |-> [a EXCEPT !.currentCandle = upd], out |-> <<>>]

AggOnTick ==
    /\ aggTick.n < MaxAggTicks
    /\ \E price \in AggPrices, volume \in AggVolumes, timestamp \in 0..MaxTime :
          LET r == CandleAggregator_onTick(agg, price, volume, timestamp)
          IN /\ agg' = r.agg
             /\ emitted' = emitted \o r.out
             /\ aggTick' = [n |-> aggTick.n + 1, price |-> price,
                            volume |-> volume, timestamp |-> timestamp,
                            received |-> aggTick.received + volume,
                            back |-> aggTick.back
                                       \/ (aggTick.n > 0 /\ timestamp < aggTick.timestamp)]
    /\ UNCHANGED exceptAgg

InitAgg ==
    /\ agg = AggInit
    /\ emitted = <<>>
    /\ aggTick = [n |-> 0, price |-> 0, volume |-> 0, timestamp |-> 0, received |-> 0,
                 back |-> FALSE]

------------------------------------------------------------\* push_back followed by pop_front once the cap is exceeded.
PushCapped(q, x, cap) ==
    LET pushed == Append(q, x) IN IF Len(pushed) > cap THEN Tail(pushed) ELSE pushed

----------------
(* PnLTracker (src/src/backtest/pnl.cpp) *)

Symbols == {"BTC", "ETH"}

InitialCash == 10000 * FP

MaxPnLOps == 3

PnLPrices == {10 * FP, 20 * FP}

PnLQuantities == {-2 * FP, -1 * FP, 0, 1 * FP, 2 * FP}

EmptyMap == [x \in {} |-> 0]

MapPut(f, k, v) == [x \in DOMAIN f \cup {k} |-> IF x = k THEN v ELSE f[x]]

MapDel(f, k) == [x \in DOMAIN f \ {k} |-> f[x]]

\* std::map<std::string,double>::operator[] reads a missing key as 0.0.
MapGet0(f, k) == IF k \in DOMAIN f THEN f[k] ELSE 0

RECURSIVE SumOver(_, _)
SumOver(f, keys) ==
    IF keys = {} THEN 0
    ELSE LET k == CHOOSE x \in keys : TRUE IN f[k] + SumOver(f, keys \ {k})

\* Constructor, lines 4-7, and reset(), lines 205-210.
PnLTracker_new(initialCash) ==
    [initialCash_ |-> initialCash, cash_ |-> initialCash,
     positions_ |-> EmptyMap, realizedPnL_ |-> EmptyMap, transactions_ |-> <<>>]

PnLTracker_reset(t) == PnLTracker_new(t.initialCash_)

\* Lines 216-229: AVERAGE, FIFO and LIFO share one formula.
updatePositionCost(pos, quantity, price) ==
    LET totalQuantity == pos.quantity + quantity
        avg == Div(Mul(pos.avgEntryPrice, Abs(pos.quantity)) + Mul(price, Abs(quantity)),
                   Abs(totalQuantity))
    IN [pos EXCEPT !.avgEntryPrice = avg,
                   !.quantity = totalQuantity,
                   !.totalCost = Mul(Abs(totalQuantity), avg)]

\* |quantity| < 1e-8 in fixed point.
IsZeroQty(q) == q = 0

\* Lines 9-62.  The wall-clock timestamp of a Transaction is left out.
PnLTracker_addPosition(t, symbol, quantity, price) ==
    LET txn == [symbol |-> symbol, quantity |-> quantity, price |-> price,
                type |-> IF quantity > 0 THEN "BUY" ELSE "SELL"]
        afterPos ==
            IF symbol \notin DOMAIN t.positions_
            THEN [t EXCEPT !.positions_ = MapPut(@, symbol,
                     [quantity |-> quantity, avgEntryPrice |-> price,
                      currentPrice |-> price, totalCost |-> Mul(Abs(quantity), price),
                      unrealizedPnL |-> 0, realizedPnL |-> 0])]
            ELSE LET pos == t.positions_[symbol]
                 IN IF (pos.quantity > 0 /\ quantity > 0) \/ (pos.quantity < 0 /\ quantity < 0)
                    THEN [t EXCEPT !.positions_ =
                             MapPut(@, symbol, updatePositionCost(pos, quantity, price))]
                    ELSE LET closeQuantity == Min(Abs(quantity), Abs(pos.quantity))
                             pnl == Mul(price - pos.avgEntryPrice, closeQuantity)
                                      * (IF pos.quantity > 0 THEN 1 ELSE -1)
                             newQty == pos.quantity + quantity
                             rp == MapPut(t.realizedPnL_, symbol,
                                          MapGet0(t.realizedPnL_, symbol) + pnl)
                         IN IF IsZeroQty(newQty)
                            THEN [t EXCEPT !.realizedPnL_ = rp,
                                           !.positions_ = MapDel(@, symbol)]
                            ELSE [t EXCEPT !.realizedPnL_ = rp,
                                           !.positions_ = MapPut(@, symbol,
                                               [pos EXCEPT !.realizedPnL = @ + pnl,
                                                           !.quantity = newQty,
                                                           !.avgEntryPrice = price,
                                                           !.totalCost = Mul(Abs(newQty), price)])]
    IN [afterPos EXCEPT !.cash_ = @ - Mul(quantity, price),
                        !.transactions_ = Append(@, txn)]

\* Lines 64-87.
PnLTracker_closePosition(t, symbol, price) ==
    IF symbol \notin DOMAIN t.positions_ THEN t
    ELSE LET pos == t.positions_[symbol]
             pnl == Mul(price - pos.avgEntryPrice, pos.quantity)
         IN [t EXCEPT !.realizedPnL_ = MapPut(@, symbol, MapGet0(@, symbol) + pnl),
                      !.cash_ = @ + Mul(pos.quantity, price),
                      !.transactions_ = Append(@, [symbol |-> symbol,
                            quantity |-> -pos.quantity, price |-> price, type |-> "CLOSE"]),
                      !.positions_ = MapDel(@, symbol)]

\* Lines 89-118.
PnLTracker_closePartialPosition(t, symbol, quantity, price) ==
    IF symbol \notin DOMAIN t.positions_ THEN t
    ELSE LET pos == t.positions_[symbol]
             closeQty == Min(Abs(quantity), Abs(pos.quantity))
         IN IF (pos.quantity > 0 /\ quantity < 0) \/ (pos.quantity < 0 /\ quantity > 0)
            THEN LET pnl == Mul(price - pos.avgEntryPrice, closeQty)
                              * (IF pos.quantity > 0 THEN 1 ELSE -1)
                     newQty == pos.quantity + quantity
                     newPos == [pos EXCEPT !.realizedPnL = @ + pnl, !.quantity = newQty]
                 IN [t EXCEPT
                        !.realizedPnL_ = MapPut(@, symbol, MapGet0(@, symbol) + pnl),
                        !.cash_ = @ + Mul(closeQty, price) * (IF quantity < 0 THEN -1 ELSE 1),
                        !.positions_ = IF IsZeroQty(newQty) THEN MapDel(@, symbol)
                                       ELSE MapPut(@, symbol, newPos),
                        !.transactions_ = Append(@, [symbol |-> symbol,
                            quantity |-> quantity, price |-> price,
                            type |-> "PARTIAL_CLOSE"])]
            ELSE t

\* Lines 120-127.
PnLTracker_updatePrice(t, symbol, price) ==
    IF symbol \in DOMAIN t.positions_
    THEN LET pos == t.positions_[symbol]
         IN [t EXCEPT !.positions_[symbol] =
                [pos EXCEPT !.currentPrice = price,
                            !.unrealizedPnL = Mul(price - pos.avgEntryPrice, pos.quantity)]]
    ELSE t

\* Lines 154-156.
PnLTracker_hasPosition(t, symbol) == symbol \in DOMAIN t.positions_

\* Lines 172-198 (leverage, a ratio nothing here reads, is left out).
PnLTracker_getPortfolioMetrics(t) ==
    LET ps == t.positions_
        positionsValue ==
            SumOver([s \in DOMAIN ps |-> Mul(ps[s].quantity, ps[s].currentPrice)], DOMAIN ps)
        unrealized == SumOver([s \in DOMAIN ps |-> ps[s].unrealizedPnL], DOMAIN ps)
        exposure ==
            SumOver([s \in DOMAIN ps |-> Abs(Mul(ps[s].quantity, ps[s].currentPrice))],
                    DOMAIN ps)
        realized == SumOver(t.realizedPnL_, DOMAIN t.realizedPnL_)
    IN [cash |-> t.cash_, realizedPnL |-> realized, unrealizedPnL |-> unrealized,
        exposure |-> exposure, numPositions |-> Cardinality(DOMAIN ps),
        totalValue |-> t.cash_ + positionsValue, totalPnL |-> realized + unrealized]

PnLOps == Len(pnlTracker_.transactions_)

PnLAdd ==
    /\ PnLOps < MaxPnLOps
    /\ \E s \in Symbols, q \in PnLQuantities :
          pnlTracker_' = PnLTracker_addPosition(pnlTracker_, s, q, pnlPrice)
    /\ UNCHANGED <<pnlPrice, pnlTrade, exceptPnL>>

PnLClose ==
    /\ PnLOps < MaxPnLOps
    /\ \E s \in Symbols : pnlTracker_' = PnLTracker_closePosition(pnlTracker_, s, pnlPrice)
    /\ UNCHANGED <<pnlPrice, pnlTrade, exceptPnL>>

PnLClosePartial ==
    /\ PnLOps < MaxPnLOps
    /\ \E s \in Symbols, q \in PnLQuantities :
          pnlTracker_' = PnLTracker_closePartialPosition(pnlTracker_, s, q, pnlPrice)
    /\ UNCHANGED <<pnlPrice, pnlTrade, exceptPnL>>

InitPnL ==
    /\ pnlTracker_ = PnLTracker_new(InitialCash)
    /\ pnlPrice \in PnLPrices
    /\ pnlTrade = <<>>

\* Trades at changing prices, each followed by updatePrice of its symbol at
\* the price it was made at (as Backtester::run does, line 75).
PnLMarkPrices == {10 * FP, 40 * FP}

PnLAddAt ==
    /\ pnlTrade = <<>>
    /\ PnLOps < MaxPnLOps
    /\ \E s \in Symbols, q \in PnLQuantities, price \in PnLMarkPrices :
          /\ pnlTracker_' = PnLTracker_addPosition(pnlTracker_, s, q, price)
          /\ pnlTrade' = <<s, price>>
    /\ UNCHANGED <<pnlPrice, exceptPnL>>

PnLCloseAt ==
    /\ pnlTrade = <<>>
    /\ PnLOps < MaxPnLOps
    /\ \E s \in Symbols, price \in PnLMarkPrices :
          /\ PnLTracker_hasPosition(pnlTracker_, s)
          /\ pnlTracker_' = PnLTracker_closePosition(pnlTracker_, s, price)
          /\ pnlTrade' = <<s, price>>
    /\ UNCHANGED <<pnlPrice, exceptPnL>>

PnLUpdatePrice ==
    /\ pnlTrade # <<>>
    /\ pnlTracker_' = PnLTracker_updatePrice(pnlTracker_, pnlTrade[1], pnlTrade[2])
    /\ pnlTrade' = <<>>
    /\ UNCHANGED <<pnlPrice, exceptPnL>>

----------------------------------------------------------------------------
(* Performance metrics (src/src/backtest/sharpe.cpp) *)

RECURSIVE SumRange(_, _, _)
SumRange(s, lo, hi) ==
    IF lo > hi THEN 0
    ELSE IF lo = hi THEN s[lo]
    ELSE LET mid == (lo + hi) \div 2
         IN SumRange(s, lo, mid) + SumRange(s, mid + 1, hi)

\* std::accumulate over a container.
SeqSum(s) == SumRange(s, 1, Len(s))

RECURSIVE SqrtSearch(_, _, _)
SqrtSearch(n, lo, hi) ==
    IF lo >= hi THEN lo
    ELSE LET mid == (lo + hi + 1) \div 2
         IN IF mid * mid <= n THEN SqrtSearch(n, mid, hi) ELSE SqrtSearch(n, lo, mid - 1)

\* std::sqrt on a fixed-point argument: floor(sqrt(x * FP)).
Sqrt(x) == IF x <= 0 THEN 0 ELSE SqrtSearch(x * FP, 0, Min(x * FP, 46340))

\* Lines 5-8.
mean(data) == IF data = <<>> THEN 0 ELSE TruncDiv(SeqSum(data), Len(data))

\* Lines 10-18.
stddev(data) ==
    IF Len(data) < 2 THEN 0
    ELSE LET m == mean(data)
             variance == SeqSum([i \in 1..Len(data) |-> Mul(data[i] - m, data[i] - m)])
         IN Sqrt(TruncDiv(variance, Len(data) - 1))

\* sqrt(252.0), the default periodsPerYear (src/include/backtest/sharpe.h:23).
SqrtPeriodsPerYear == 1587

\* Lines 33-47 with riskFreeRate = 0.
computeSharpeRatio(returns) ==
    IF Len(returns) < 2 THEN 0
    ELSE LET sd == stddev(returns)
         IN IF sd = 0 THEN 0 ELSE Mul(Div(mean(returns), sd), SqrtPeriodsPerYear)

RECURSIVE DrawdownFrom(_, _, _)
DrawdownFrom(curve, peak, maxDD) ==
    IF curve = <<>> THEN maxDD
    ELSE LET pk == Max(peak, curve[1])
         IN DrawdownFrom(Tail(curve), pk, Max(maxDD, pk - curve[1]))

\* Lines 74-87.
computeMaxDrawdown(equityCurve) ==
    IF equityCurve = <<>> THEN 0 ELSE DrawdownFrom(equityCurve, equityCurve[1], 0)

\* Lines 89-104; the result is a percentage.
computeMaxDrawdownPercent(equityCurve) ==
    IF equityCurve = <<>> THEN 0
    ELSE LET RECURSIVE Loop(_, _, _)
             Loop(i, peak, maxDDPct) ==
                 IF i > Len(equityCurve) THEN maxDDPct
                 ELSE LET equity == equityCurve[i]
                          newPeak == Max(peak, equity)
                      IN Loop(i + 1, newPeak,
                              IF newPeak > 0
                              THEN Max(maxDDPct, Div(newPeak - equity, newPeak))
                              ELSE maxDDPct)
         IN Loop(1, equityCurve[1], 0) * 100

\* Lines 158-165.
computeWinRate(returns) ==
    IF returns = <<>> THEN 0
    ELSE LET wins == Cardinality({i \in 1..Len(returns) : returns[i] > 0})
         IN Div(wins * FP, Len(returns) * FP)

\* Series handed to the metrics: equity values or returns.
MaxSeriesLen == 3

SeriesValues == {-50 * FP, 0, 50 * FP, 100 * FP}

\* The metrics are free functions; a value not yet computed is <<>>.
StatMaxDrawdown ==
    /\ stat.maxDrawdown = <<>>
    /\ stat' = [stat EXCEPT !.maxDrawdown = <<computeMaxDrawdown(stat.data)>>]
    /\ UNCHANGED exceptStat

StatMaxDrawdownPercent ==
    /\ stat.maxDrawdownPercent = <<>>
    /\ stat' = [stat EXCEPT !.maxDrawdownPercent = <<computeMaxDrawdownPercent(stat.data)>>]
    /\ UNCHANGED exceptStat

StatWinRate ==
    /\ stat.winRate = <<>>
    /\ stat' = [stat EXCEPT !.winRate = <<computeWinRate(stat.data)>>]
    /\ UNCHANGED exceptStat

InitStat ==
    \E n \in 0..MaxSeriesLen :
       \E data \in [1..n -> SeriesValues] :
          stat = [data |-> data, maxDrawdown |-> <<>>, maxDrawdownPercent |-> <<>>,
                  winRate |-> <<>>]

RestStat ==
    stat = [data |-> <<>>, maxDrawdown |-> <<>>, maxDrawdownPercent |-> <<>>,
            winRate |-> <<>>]

----------------------------------------------------------------------------
(* Backtester (src/src/backtest/backtester.cpp, src/unnamed/part_004) *)

BtSymbol == "BTC"

MaxBtTicks == 3

BtPrices == {90 * FP, 100 * FP, 110 * FP}

Signals == {-1, 0, 1}

\* BacktestConfig.  Rates are kept in the units the program multiplies by
\* 1e-4: slippageBps as given, commissionRate 0.001 as 10; maxPositionSize
\* and marginRequirement in percent.
BtConfigs ==
    [initialCapital : {InitialCash},
     commissionRate : {0, 10},
     slippageBps : {0, 2},
     maxPositionSize : {50, 100},
     enableShortSelling : BOOLEAN,
     enableMarginTrading : {FALSE},
     marginRequirement : {50}]

\* Lines 150-153.
applySlippage(cfg, price, isBuy) ==
    TruncDiv(price * (10000 + (IF isBuy THEN 1 ELSE -1) * cfg.slippageBps), 10000)

\* Lines 155-157.
calculateCommission(cfg, notional) == TruncDiv(notional * cfg.commissionRate, 10000)

Pct(x, percent) == TruncDiv(x * percent, 100)

\* Lines 159-163.
canEnterPosition(cfg, b, price, quantity) ==
    LET notional == Mul(price, Abs(quantity))
        requiredCapital == IF cfg.enableMarginTrading
                           THEN Pct(notional, cfg.marginRequirement) ELSE notional
    IN requiredCapital <= Pct(b.currentCash_, cfg.maxPositionSize)

\* Lines 165-186.  b carries the members and the tracker.
enterPosition(cfg, b, tick, quantity, isLong) ==
    LET executionPrice == applySlippage(cfg, tick.price, isLong)
        notional == Mul(executionPrice, Abs(quantity))
        commission == calculateCommission(cfg, notional)
    IN [b EXCEPT !.currentPosition_ = quantity,
                 !.avgEntryPrice_ = executionPrice,
                 !.currentCash_ = @ - (notional + commission),
                 !.pnlTracker_ = PnLTracker_addPosition(@, tick.symbol, quantity,
                                                        executionPrice)]

exitPosition_positionKept(cfg, b, tick) ==
    IF b.currentPosition_ = 0 THEN b
    ELSE LET isLong == b.currentPosition_ > 0
             executionPrice == applySlippage(cfg, tick.price, ~isLong)
             notional == Mul(executionPrice, Abs(b.currentPosition_))
             commission == calculateCommission(cfg, notional)
         IN [b EXCEPT !.currentCash_ = @ + (notional - commission),
                      !.pnlTracker_ = PnLTracker_closePosition(@, tick.symbol,
                                                               executionPrice)]

\* Lines 188-211.
exitPosition(cfg, b, tick) ==
    IF b.currentPosition_ = 0 THEN b
    ELSE LET isLong == b.currentPosition_ > 0
             executionPrice == applySlippage(cfg, tick.price, ~isLong)
             notional == Mul(executionPrice, Abs(b.currentPosition_))
             commission == calculateCommission(cfg, notional)
         IN [b EXCEPT !.currentCash_ = @ + (notional - commission),
                      !.pnlTracker_ = PnLTracker_closePosition(@, tick.symbol,
                                                               executionPrice),
                      !.currentPosition_ = 0,
                      !.avgEntryPrice_ = 0]

\* Lines 45-56: the Trade is filled in from the members as they are after
\* exitPosition has returned.
SignalSellTrade(cfg, b, tick) ==
    [symbol |-> tick.symbol, timestamp |-> tick.timestamp,
     entryPrice |-> b.avgEntryPrice_, exitPrice |-> tick.price,
     quantity |-> b.currentPosition_, isLong |-> TRUE,
     pnl |-> Mul(tick.price - b.avgEntryPrice_, b.currentPosition_),
     commission |-> calculateCommission(cfg, Mul(tick.price, b.currentPosition_)),
     slippage |-> applySlippage(cfg, tick.price, FALSE) - tick.price,
     entryReason |-> "SIGNAL_BUY", exitReason |-> "SIGNAL_SELL"]

ExecuteSignal_holdBuys(cfg, b, trades, tick, signal) ==
    IF signal # -1 /\ b.currentPosition_ <= 0
    THEN LET maxQuantity == Div(Pct(b.currentCash_, cfg.maxPositionSize), tick.price)
         IN [b |-> IF canEnterPosition(cfg, b, tick.price, maxQuantity)
                   THEN enterPosition(cfg, b, tick, maxQuantity, TRUE) ELSE b,
             trades |-> trades]
    ELSE IF signal = -1 /\ b.currentPosition_ >= 0
    THEN LET exited == IF b.currentPosition_ > 0 THEN exitPosition(cfg, b, tick) ELSE b
             trades1 == IF b.currentPosition_ > 0
                        THEN Append(trades, SignalSellTrade(cfg, exited, tick))
                        ELSE trades
             maxQuantity == Div(Pct(exited.currentCash_, cfg.maxPositionSize), tick.price)
         IN [b |-> IF cfg.enableShortSelling
                      /\ canEnterPosition(cfg, exited, tick.price, maxQuantity)
                   THEN enterPosition(cfg, exited, tick, -maxQuantity, FALSE)
                   ELSE exited,
             trades |-> trades1]
    ELSE [b |-> b, trades |-> trades]

\* Lines 33-68: the members and the trade list after the signal is acted on.
ExecuteSignal(cfg, b, trades, tick, signal) ==
    IF signal = 1 /\ b.currentPosition_ <= 0
    THEN LET maxQuantity == Div(Pct(b.currentCash_, cfg.maxPositionSize), tick.price)
         IN [b |-> IF canEnterPosition(cfg, b, tick.price, maxQuantity)
                   THEN enterPosition(cfg, b, tick, maxQuantity, TRUE) ELSE b,
             trades |-> trades]
    ELSE IF signal = -1 /\ b.currentPosition_ >= 0
    THEN LET exited == IF b.currentPosition_ > 0 THEN exitPosition(cfg, b, tick) ELSE b
             trades1 == IF b.currentPosition_ > 0
                        THEN Append(trades, SignalSellTrade(cfg, exited, tick))
                        ELSE trades
             maxQuantity == Div(Pct(exited.currentCash_, cfg.maxPositionSize), tick.price)
         IN [b |-> IF cfg.enableShortSelling
                      /\ canEnterPosition(cfg, exited, tick.price, maxQuantity)
                   THEN enterPosition(cfg, exited, tick, -maxQuantity, FALSE)
                   ELSE exited,
             trades |-> trades1]
    ELSE [b |-> b, trades |-> trades]

\* Lines 213-268.  result.equityCurve and result.timestamps are the vectors
\* of a default-constructed BacktestResult: nothing assigns them.
computeResults(cfg, trades) ==
    LET pnls == [i \in 1..Len(trades) |-> trades[i].pnl]
        wins == {i \in 1..Len(trades) : pnls[i] > 0}
        losses == {i \in 1..Len(trades) : pnls[i] < 0}
        totalPnL == SeqSum(pnls)
        totalWin == SeqSum([i \in 1..Len(trades) |-> IF pnls[i] > 0 THEN pnls[i] ELSE 0])
        totalLoss == SeqSum([i \in 1..Len(trades) |-> IF pnls[i] < 0 THEN -pnls[i] ELSE 0])
        avgWin == IF wins # {} THEN TruncDiv(totalWin, Cardinality(wins)) ELSE 0
        avgLoss == IF losses # {} THEN TruncDiv(totalLoss, Cardinality(losses)) ELSE 0
        returns == [i \in 1..Len(trades) |-> Div(pnls[i], cfg.initialCapital)]
        resultEquityCurve == <<>>
    IN IF trades = <<>>
       THEN [trades |-> trades, numTrades |-> 0, totalPnL |-> 0, totalReturn |-> 0,
             sharpeRatio |-> 0, maxDrawdown |-> 0, winRate |-> 0,
             numWinningTrades |-> 0, numLosingTrades |-> 0, avgWin |-> 0,
             avgLoss |-> 0, profitFactor |-> 0, expectancy |-> 0,
             equityCurve |-> <<>>, timestamps |-> <<>>]
       ELSE [trades |-> trades, numTrades |-> Len(trades), totalPnL |-> totalPnL,
             totalReturn |-> Div(totalPnL, cfg.initialCapital) * 100,
             sharpeRatio |-> computeSharpeRatio(returns),
             maxDrawdown |-> computeMaxDrawdown(resultEquityCurve),
             winRate |-> Div(Cardinality(wins) * FP, Len(trades) * FP),
             numWinningTrades |-> Cardinality(wins),
             numLosingTrades |-> Cardinality(losses),
             avgWin |-> avgWin, avgLoss |-> avgLoss,
             profitFactor |-> IF avgLoss > 0 THEN Div(avgWin, avgLoss) ELSE 0,
             expectancy |-> TruncDiv(totalPnL, Len(trades)),
             equityCurve |-> resultEquityCurve, timestamps |-> <<>>]

\* Constructor, lines 7-12.
Backtester_new(cfg) ==
    [currentPosition_ |-> 0, avgEntryPrice_ |-> 0,
     currentCash_ |-> cfg.initialCapital,
     pnlTracker_ |-> PnLTracker_new(cfg.initialCapital)]

NoRun == [pc |-> "idle", historicalData |-> <<>>, signals |-> <<>>, trades |-> <<>>,
          equityCurve |-> <<>>, timestamps |-> <<>>, endExit |-> FALSE]

NoResult == computeResults([initialCapital |-> InitialCash], <<>>)

RunReset_cashKept(cfg, b) ==
    [b EXCEPT !.currentPosition_ = 0, !.avgEntryPrice_ = 0,
              !.pnlTracker_ = PnLTracker_reset(@)]

\* Lines 18-22: run() resets the members.
RunReset(cfg, b) ==
    [b EXCEPT !.currentPosition_ = 0, !.avgEntryPrice_ = 0,
              !.currentCash_ = cfg.initialCapital,
              !.pnlTracker_ = PnLTracker_reset(@)]

\* Lines 24-26: the locals of run().
RunLocals(b) == [b |-> b, trades |-> <<>>, equityCurve |-> <<>>, timestamps |-> <<>>]

\* Lines 28-76: one iteration of the loop over historicalData.
RunIteration(cfg, st, tick, signal) ==
    LET r == ExecuteSignal(cfg, st.b, st.trades, tick, signal)
        equity == r.b.currentCash_ + Mul(r.b.currentPosition_, tick.price)
    IN [b |-> [r.b EXCEPT !.pnlTracker_ =
                  PnLTracker_updatePrice(@, tick.symbol, tick.price)],
        trades |-> r.trades,
        equityCurve |-> Append(st.equityCurve, equity),
        timestamps |-> Append(st.timestamps, tick.timestamp)]

\* Lines 78-81: a position still open after the last tick is closed there.
RunEndExits(b, historicalData) == b.currentPosition_ # 0 /\ historicalData # <<>>

RunClose(cfg, b, historicalData) ==
    IF RunEndExits(b, historicalData)
    THEN exitPosition(cfg, b, Last(historicalData))
    ELSE b

RECURSIVE RunLoop(_, _, _, _, _)
RunLoop(cfg, st, historicalData, signals, k) ==
    IF k > Len(historicalData) THEN st
    ELSE RunLoop(cfg, RunIteration(cfg, st, historicalData[k], signals[k]),
                 historicalData, signals, k + 1)

\* Lines 14-84: run() as a whole, on the Backtester b; signals[k] is what
\* signalFunc returns for historicalData[k].
Backtester_run(cfg, b, historicalData, signals) ==
    LET st == RunLoop(cfg, RunLocals(RunReset(cfg, b)), historicalData, signals, 1)
    IN [b |-> RunClose(cfg, st.b, historicalData),
        result |-> computeResults(cfg, st.trades)]

\* Lines 18-26: run() resets the members and starts with empty locals.
BtRunBegin ==
    /\ btRun.pc = "idle"
    /\ bt' = RunReset(config_, bt)
    /\ btRun' = [NoRun EXCEPT !.pc = "loop"]
    /\ UNCHANGED <<config_, btResult, btWalk, btLaps, exceptBt>>

\* Lines 28-76: one iteration of the loop over historicalData.
BtTick ==
    /\ btRun.pc = "loop"
    /\ Len(btRun.historicalData) < MaxBtTicks
    /\ \E price \in BtPrices, signal \in Signals :
          LET tick == [symbol |-> BtSymbol, price |-> price,
                       timestamp |-> Len(btRun.historicalData) + 1]
              st == RunIteration(config_,
                                 [b |-> bt, trades |-> btRun.trades,
                                  equityCurve |-> btRun.equityCurve,
                                  timestamps |-> btRun.timestamps],
                                 tick, signal)
          IN /\ bt' = st.b
             /\ btRun' = [btRun EXCEPT !.historicalData = Append(@, tick),
                                       !.signals = Append(@, signal),
                                       !.trades = st.trades,
                                       !.equityCurve = st.equityCurve,
                                       !.timestamps = st.timestamps]
    /\ UNCHANGED <<config_, btResult, btWalk, btLaps, exceptBt>>

\* Lines 78-83: the end of the data.
BtRunEnd ==
    /\ btRun.pc = "loop"
    /\ bt' = RunClose(config_, bt, btRun.historicalData)
    /\ btResult' = computeResults(config_, btRun.trades)
    /\ btRun' = [btRun EXCEPT !.pc = "done",
                              !.endExit = RunEndExits(bt, btRun.historicalData)]
    /\ UNCHANGED <<config_, btWalk, btLaps, exceptBt>>

\* walkForward(), lines 86-115.  slices records the bounds of each testData;
\* results and slices show the last MaxWalkTicks entries of the vector, which
\* is all of it whenever i advances.
NoWalk == [pc |-> "idle", historicalData |-> <<>>, signals |-> <<>>,
           trainPeriod |-> 0, testPeriod |-> 0, i |-> 0,
           results |-> <<>>, slices |-> <<>>]

MaxWalkTicks == 4

WalkPrices == {90 * FP, 110 * FP}

WalkSignals == {-1, 1}

WalkTrainPeriods == 0..2

\* testPeriod = 0 never advances i (line 95); the callers pass testPeriod >= 1.
WalkTestPeriods == 1..2

\* Lines 86-94: the call, with i = 0 and no results.
WalkForwardCall ==
    /\ btWalk.pc = "idle"
    /\ \E n \in 0..MaxWalkTicks, trainPeriod \in WalkTrainPeriods,
          testPeriod \in WalkTestPeriods :
          \E prices \in [1..n -> WalkPrices], signals \in [1..n -> WalkSignals] :
             btWalk' = [NoWalk EXCEPT
                           !.pc = "loop",
                           !.historicalData =
                               [k \in 1..n |-> [symbol |-> BtSymbol, price |-> prices[k],
                                                timestamp |-> k]],
                           !.signals = signals,
                           !.trainPeriod = trainPeriod,
                           !.testPeriod = testPeriod]
    /\ UNCHANGED <<config_, bt, btRun, btResult, btLaps, exceptBt>>

\* The same call with any testPeriod >= 0 that the signature admits.
WalkAnyTestPeriods == 0..2

WalkForwardCallAny ==
    /\ btWalk.pc = "idle"
    /\ \E n \in 0..MaxWalkTicks, trainPeriod \in WalkTrainPeriods,
          testPeriod \in WalkAnyTestPeriods :
          \E prices \in [1..n -> WalkPrices], signals \in [1..n -> WalkSignals] :
             btWalk' = [NoWalk EXCEPT
                           !.pc = "loop",
                           !.historicalData =
                               [k \in 1..n |-> [symbol |-> BtSymbol, price |-> prices[k],
                                                timestamp |-> k]],
                           !.signals = signals,
                           !.trainPeriod = trainPeriod,
                           !.testPeriod = testPeriod]
    /\ UNCHANGED <<config_, bt, btRun, btResult, btLaps, exceptBt>>

\* Line 94: the loop condition.
WalkForwardContinues(w) ==
    w.i + w.trainPeriod + w.testPeriod < Len(w.historicalData)

\* Lines 97-105 and the increment of line 95: one iteration.
WalkForwardIteration ==
    /\ btWalk.pc = "loop"
    /\ WalkForwardContinues(btWalk)
    /\ LET from == btWalk.i + btWalk.trainPeriod
           to == btWalk.i + btWalk.trainPeriod + btWalk.testPeriod
           testData == SubSeq(btWalk.historicalData, from + 1, to)
           testSignals == SubSeq(btWalk.signals, from + 1, to)
           r == Backtester_run(config_, bt, testData, testSignals)
       IN /\ bt' = r.b
          /\ btWalk' = [btWalk EXCEPT
                           !.results = PushCapped(@, r.result, MaxWalkTicks),
                           !.slices = PushCapped(@, [from |-> from, to |-> to],
                                                 MaxWalkTicks),
                           !.i = @ + btWalk.testPeriod]
          /\ btLaps' = 1 - btLaps
    /\ UNCHANGED <<config_, btRun, btResult, exceptBt>>

\* Line 114.
WalkForwardReturn ==
    /\ btWalk.pc = "loop"
    /\ ~WalkForwardContinues(btWalk)
    /\ btWalk' = [btWalk EXCEPT !.pc = "done"]
    /\ UNCHANGED <<config_, bt, btRun, btResult, btLaps, exceptBt>>

InitBt ==
    /\ config_ \in BtConfigs
    /\ bt = Backtester_new(config_)
    /\ btRun = NoRun
    /\ btResult = NoResult
    /\ btWalk = NoWalk
    /\ btLaps = 0

----------------------------------------------------------------------------
(* MicrostructureAnalyzer (src/src/alpha/microstructure.cpp) *)

\* The literal 1000 of lines 28 and 33.
TradeHistoryCap == 1000

\* The 50 most recent classified trades of line 63.
RecentTradesWindow == 50

MaxMicroTicks == 4

\* A bar without a close reaches the analyzer with price 0
\* (src/src/feeds/polygon_feed.cpp, line 128).
MicroPrices == {0, 1 * FP, 2 * FP}

MicroVolumes == {1 * FP, 2 * FP}

\* (bucketSize, vpinWindow, impactWindow) of the instances explored.
MicroParams == {<<1, 2, 2>>, <<2, 2, 2>>}

\* Constructor, lines 5-20; reset(), lines 148-163, restores the same values.
MicrostructureAnalyzer_new(bucketSize, vpinWindow, impactWindow) ==
    [bucketSize_ |-> bucketSize, vpinWindow_ |-> vpinWindow,
     impactWindow_ |-> impactWindow,
     tradeHistory_ |-> <<>>, classifiedTrades_ |-> <<>>, volumeBuckets_ |-> <<>>,
     currentBucketVolume_ |-> 0, currentBucketBuyVolume_ |-> 0,
     isCurrentBucketBuy_ |-> TRUE,
     priceChanges_ |-> <<>>, signedVolumes_ |-> <<>>,
     lastPrice_ |-> 0, lastMidPrice_ |-> 0,
     cumulativeVolume_ |-> 0, cumulativeBuyVolume_ |-> 0, cumulativeSellVolume_ |-> 0]

MicrostructureAnalyzer_reset(m) ==
    MicrostructureAnalyzer_new(m.bucketSize_, m.vpinWindow_, m.impactWindow_)

\* Lines 252-265.
inferTradeSide(m, price) ==
    IF m.lastPrice_ <= 0 THEN "UNKNOWN"
    ELSE IF price > m.lastPrice_ THEN "BUY"
    ELSE IF price < m.lastPrice_ THEN "SELL"
    ELSE IF m.classifiedTrades_ = <<>> THEN "UNKNOWN"
    ELSE Last(m.classifiedTrades_).side

\* Lines 89-119.
classifyTrade(m, price, volume, bidPrice, askPrice) ==
    IF bidPrice > 0 /\ askPrice > 0
    THEN LET midPrice == TruncDiv(bidPrice + askPrice, 2)
         IN IF price > midPrice THEN [side |-> "BUY", signedVolume |-> volume]
            ELSE IF price < midPrice THEN [side |-> "SELL", signedVolume |-> -volume]
            ELSE LET side == inferTradeSide(m, price)
                 IN [side |-> side,
                     signedVolume |-> IF side = "BUY" THEN volume ELSE -volume]
    ELSE LET side == inferTradeSide(m, price)
         IN [side |-> side, signedVolume |-> IF side = "BUY" THEN volume ELSE -volume]

\* Lines 165-188.
updateVPINBuckets(m, trade) ==
    LET vol == Abs(trade.signedVolume)
        bucketVolume == m.currentBucketVolume_ + vol
        bucketBuy == m.currentBucketBuyVolume_ + (IF trade.side = "BUY" THEN vol ELSE 0)
    IN IF bucketVolume >= m.bucketSize_ * FP
       THEN [m EXCEPT !.volumeBuckets_ =
                         PushCapped(@, Abs(2 * bucketBuy - bucketVolume), m.vpinWindow_),
                      !.currentBucketVolume_ = 0,
                      !.currentBucketBuyVolume_ = 0]
       ELSE [m EXCEPT !.currentBucketVolume_ = bucketVolume,
                      !.currentBucketBuyVolume_ = bucketBuy]

\* Lines 190-198.
updatePriceImpact(m, priceChange, signedVolume) ==
    [m EXCEPT !.priceChanges_ = PushCapped(@, priceChange, m.impactWindow_),
              !.signedVolumes_ = PushCapped(@, signedVolume, m.impactWindow_)]

\* Lines 22-55.
MicrostructureAnalyzer_onTick(m, tick) ==
    LET classification == classifyTrade(m, tick.price, tick.volume, 0, 0)
        m1 == [m EXCEPT
                 !.tradeHistory_ = PushCapped(@, tick, TradeHistoryCap),
                 !.classifiedTrades_ = PushCapped(@, classification, TradeHistoryCap),
                 !.cumulativeVolume_ = @ + tick.volume,
                 !.cumulativeBuyVolume_ =
                     @ + (IF classification.side = "BUY" THEN tick.volume ELSE 0),
                 !.cumulativeSellVolume_ =
                     @ + (IF classification.side = "SELL" THEN tick.volume ELSE 0)]
        m2 == updateVPINBuckets(m1, classification)
        m3 == IF m.lastPrice_ > 0
              THEN updatePriceImpact(m2, tick.price - m.lastPrice_,
                                     classification.signedVolume)
              ELSE m2
    IN [m3 EXCEPT !.lastPrice_ = tick.price]

\* computeVPIN without the clamp of line 211.
computeVPIN_unclamped(m) ==
    IF Len(m.volumeBuckets_) < 2 THEN 0
    ELSE LET avgImbalance == TruncDiv(SeqSum(m.volumeBuckets_), Len(m.volumeBuckets_))
         IN TruncDiv(avgImbalance, m.bucketSize_)

\* Lines 200-212.
computeVPIN(m) ==
    IF Len(m.volumeBuckets_) < 2 THEN 0
    ELSE LET avgImbalance == TruncDiv(SeqSum(m.volumeBuckets_), Len(m.volumeBuckets_))
             vpin == TruncDiv(avgImbalance, m.bucketSize_)
         IN Min(Max(vpin, 0), FP)

\* Lines 57-83.
getVPIN(m) ==
    LET n == Len(m.classifiedTrades_)
        window == Min(n, RecentTradesWindow)
        recent == {i \in (n - window + 1)..n : TRUE}
        vol(side) == SeqSum([i \in 1..n |->
                        IF i \in recent /\ m.classifiedTrades_[i].side = side
                        THEN Abs(m.classifiedTrades_[i].signedVolume) ELSE 0])
        recentBuy == vol("BUY")
        recentSell == vol("SELL")
        totalVol == recentBuy + recentSell
        imbalance == IF totalVol > 0 THEN Div(Abs(recentBuy - recentSell), totalVol) ELSE 0
        vpin == computeVPIN(m)
    IN [vpin |-> vpin, toxicity |-> Mul(vpin, imbalance), buyVolume |-> recentBuy,
        sellVolume |-> recentSell, imbalance |-> imbalance]

MicroTick(price, volume) ==
    [symbol |-> BtSymbol, price |-> price, volume |-> volume, timestamp |-> microTicks + 1]

MicroOnTick ==
    /\ micro.bucketSize_ \in {p[1] : p \in MicroParams}
    /\ microTicks < MaxMicroTicks
    /\ \E price \in MicroPrices, volume \in MicroVolumes :
          micro' = MicrostructureAnalyzer_onTick(micro, MicroTick(price, volume))
    /\ microTicks' = microTicks + 1
    /\ UNCHANGED exceptMicro

MicroReset ==
    /\ micro.bucketSize_ \in {p[1] : p \in MicroParams}
    /\ microTicks < MaxMicroTicks
    /\ micro.tradeHistory_ # <<>>
    /\ micro' = MicrostructureAnalyzer_reset(micro)
    /\ microTicks' = microTicks + 1
    /\ UNCHANGED exceptMicro

InitMicro ==
    /\ \E p \in MicroParams : micro = MicrostructureAnalyzer_new(p[1], p[2], p[3])
    /\ microTicks = 0

\* Scenario S4: bucketSize 100, vpinWindow 10, ticks of volume 1 with
\* strictly ascending prices.
S4BucketSize == 100

S4VpinWindow == 10

S4Ticks == 2 * S4BucketSize

S4OnTick ==
    /\ microTicks < S4Ticks
    /\ micro' = MicrostructureAnalyzer_onTick(micro,
                    MicroTick((microTicks + 1) * FP, 1 * FP))
    /\ microTicks' = microTicks + 1
    /\ UNCHANGED exceptMicro

InitS4 ==
    /\ micro = MicrostructureAnalyzer_new(S4BucketSize, S4VpinWindow, 100)
    /\ microTicks = 0

----------------------------------------------------------------------------
(* Order flow (src/src/alpha/orderflow.cpp, src/include/alpha/indicators.h) *)

\* Default windows of the components an OrderFlowEngine constructs.
OfiDefaultWindow == 100

PressureDefaultWindow == 50

AggressionDefaultWindow == 30

\* VolumeDelta::RECENT_WINDOW.
RECENT_WINDOW == 50

MaxFlowTicks == 4

FlowVolumes == {1 * FP, 3 * FP}

\* Ascending sort of a sequence (std::sort).
RECURSIVE Insert(_, _)
Insert(sorted, x) ==
    IF sorted = <<>> THEN <<x>>
    ELSE IF x <= sorted[1] THEN <<x>> \o sorted
    ELSE <<sorted[1]>> \o Insert(Tail(sorted), x)

RECURSIVE Sort(_)
Sort(q) == IF q = <<>> THEN <<>> ELSE Insert(Sort(Tail(q)), q[1])

\* Line 5.
OrderFlowImbalance_new(window) ==
    [window_ |-> window, buyVolumes_ |-> <<>>, sellVolumes_ |-> <<>>,
     buyPrices_ |-> <<>>, sellPrices_ |-> <<>>, timestamps_ |-> <<>>]

PopFront(q) == IF q = <<>> THEN q ELSE Tail(q)

\* Lines 17-30: each pass pops the front of every non-empty deque.
RECURSIVE MaintainWindow(_)
MaintainWindow(o) ==
    IF Len(o.buyVolumes_) + Len(o.sellVolumes_) > o.window_
    THEN MaintainWindow([o EXCEPT !.buyVolumes_ = PopFront(@),
                                  !.buyPrices_ = PopFront(@),
                                  !.sellVolumes_ = PopFront(@),
                                  !.sellPrices_ = PopFront(@),
                                  !.timestamps_ = PopFront(@)])
    ELSE o

\* Lines 7-31.
OrderFlowImbalance_onTrade(o, price, volume, isBuy, timestamp) ==
    LET pushed == IF isBuy
                  THEN [o EXCEPT !.buyVolumes_ = Append(@, volume),
                                 !.buyPrices_ = Append(@, price)]
                  ELSE [o EXCEPT !.sellVolumes_ = Append(@, volume),
                                 !.sellPrices_ = Append(@, price)]
    IN MaintainWindow([pushed EXCEPT !.timestamps_ = Append(@, timestamp)])

\* Lines 33-42.
computeImbalance(o) ==
    LET buyVol == SeqSum(o.buyVolumes_)
        sellVol == SeqSum(o.sellVolumes_)
    IN IF buyVol + sellVol <= 0 THEN 0 ELSE Div(buyVol - sellVol, buyVol + sellVol)

\* Lines 44-59.
computeAggression(o) ==
    LET allVolumes == Sort(o.buyVolumes_ \o o.sellVolumes_)
        n == Len(allVolumes)
    IN IF n = 0 THEN 0
       ELSE LET median == allVolumes[(n \div 2) + 1]
                threshold == TruncDiv(median * 3, 2)
                largeCount == Cardinality({i \in 1..n : allVolumes[i] > threshold})
            IN Div(largeCount * FP, n * FP)

\* Lines 61-91.
computeMomentum(o) ==
    IF Len(o.timestamps_) < 2 THEN 0
    ELSE LET halfWindow == o.window_ \div 2
             steps == 1..Len(o.timestamps_)
             \* iteration i (0-based i-1) reads index i of each deque while it lasts
             part(q, recent) ==
                 SeqSum([i \in steps |->
                            IF i <= Len(q) /\ ((i - 1 >= halfWindow) = recent)
                            THEN q[i] ELSE 0])
             recentBuy == part(o.buyVolumes_, TRUE)
             recentSell == part(o.sellVolumes_, TRUE)
             oldBuy == part(o.buyVolumes_, FALSE)
             oldSell == part(o.sellVolumes_, FALSE)
             recentImb == IF recentBuy + recentSell > 0
                          THEN Div(recentBuy - recentSell, recentBuy + recentSell) ELSE 0
             oldImb == IF oldBuy + oldSell > 0
                       THEN Div(oldBuy - oldSell, oldBuy + oldSell) ELSE 0
         IN recentImb - oldImb

\* Lines 93-112: <<>> is std::nullopt, <<r>> a result.
getOFI(o) ==
    IF o.buyVolumes_ = <<>> /\ o.sellVolumes_ = <<>> THEN <<>>
    ELSE LET buyVol == SeqSum(o.buyVolumes_)
             sellVol == SeqSum(o.sellVolumes_)
             totalVol == buyVol + sellVol
         IN << [imbalance |-> computeImbalance(o),
                bidPressure |-> IF totalVol > 0 THEN Div(buyVol, totalVol) ELSE FP \div 2,
                askPressure |-> IF totalVol > 0 THEN Div(sellVol, totalVol) ELSE FP \div 2,
                aggression |-> computeAggression(o),
                momentum |-> computeMomentum(o),
                timestamp |-> IF o.timestamps_ = <<>> THEN 0 ELSE Last(o.timestamps_)] >>

RECURSIVE TrimFront(_, _)
TrimFront(q, cap) == IF Len(q) > cap THEN TrimFront(Tail(q), cap) ELSE q

\* Lines 119-130.
BidAskPressure_new(window) == [window_ |-> window, bidVolumes_ |-> <<>>, askVolumes_ |-> <<>>]

BidAskPressure_onTrade(b, isBuy, volume) ==
    LET pushed == IF isBuy THEN [b EXCEPT !.bidVolumes_ = Append(@, volume)]
                  ELSE [b EXCEPT !.askVolumes_ = Append(@, volume)]
    IN [pushed EXCEPT !.bidVolumes_ = TrimFront(@, b.window_),
                      !.askVolumes_ = TrimFront(@, b.window_)]

\* Lines 132-141.
getPressure(b) ==
    LET bidVol == SeqSum(b.bidVolumes_)
        askVol == SeqSum(b.askVolumes_)
        total == bidVol + askVol
        ratio == IF total > 0 THEN Div(bidVol - askVol, total) ELSE 0
    IN [bidVolume |-> bidVol, askVolume |-> askVol, imbalanceRatio |-> ratio,
        dominantSide |-> IF ratio * 10 > FP THEN 1 ELSE IF ratio * 10 < -FP THEN -1 ELSE 0]

\* Lines 143-157.
TradeAggression_new(window) == [window_ |-> window, aggressionScores_ |-> <<>>]

TradeAggression_onTrade(a, volume, avgVolume, isBuy) ==
    LET score == IF avgVolume > 0 THEN Div(volume, avgVolume) - FP ELSE 0
    IN [a EXCEPT !.aggressionScores_ =
           PushCapped(@, IF isBuy THEN score ELSE -score, a.window_)]

\* Lines 159-164.
getAggression(a) ==
    IF a.aggressionScores_ = <<>> THEN 0
    ELSE TruncDiv(SeqSum(a.aggressionScores_), Len(a.aggressionScores_))

\* Lines 166-185.
VolumeDelta_new == [cumulativeDelta_ |-> 0, recentDeltas_ |-> <<>>]

VolumeDelta_onTrade(v, volume, isBuy) ==
    LET delta == IF isBuy THEN volume ELSE -volume
    IN [cumulativeDelta_ |-> v.cumulativeDelta_ + delta,
        recentDeltas_ |-> PushCapped(v.recentDeltas_, delta, RECENT_WINDOW)]

VolumeDelta_reset(v) == VolumeDelta_new

\* Lines 187-204: threshold 0.7 and weights 0.4, 0.3, 0.3, in hundredths.
FlowToxicity_new ==
    [threshold_ |-> 70, toxicity_ |-> 0, ofiWeight_ |-> 40, pressureWeight_ |-> 30,
     aggressionWeight_ |-> 30]

FlowToxicity_update(t, ofi, pressure, aggression) ==
    LET ofiNorm == TruncDiv(Abs(ofi) + FP, 2)
        pressureNorm == TruncDiv(Abs(pressure) + FP, 2)
        aggressionNorm == Min(FP, Abs(aggression))
    IN [t EXCEPT !.toxicity_ = TruncDiv(t.ofiWeight_ * ofiNorm
                                          + t.pressureWeight_ * pressureNorm
                                          + t.aggressionWeight_ * aggressionNorm, 100)]

\* Lines 206-214.
getScore(t) == [toxicity |-> t.toxicity_, isToxic |-> t.toxicity_ > t.threshold_]

\* Lines 258-264.
determineFlowDirection(ofi, pressure) ==
    LET combined == TruncDiv(ofi + pressure, 2)
    IN IF combined * 10 > 2 * FP THEN "BUY_DOMINANT"
       ELSE IF combined * 10 < -2 * FP THEN "SELL_DOMINANT"
       ELSE "NEUTRAL"

\* Lines 216-217 with the member defaults of indicators.h.
OrderFlowEngine_new ==
    [ofi_ |-> OrderFlowImbalance_new(OfiDefaultWindow),
     pressure_ |-> BidAskPressure_new(PressureDefaultWindow),
     aggression_ |-> TradeAggression_new(AggressionDefaultWindow),
     volumeDelta_ |-> VolumeDelta_new,
     toxicity_ |-> FlowToxicity_new,
     avgVolume_ |-> 0, tickCount_ |-> 0]

\* Lines 219-256: the engine after the tick and what onTick returns.
OrderFlowEngine_onTick(e, tick, isBuy) ==
    LET tickCount == e.tickCount_ + 1
        avgVolume == TruncDiv((tickCount - 1) * e.avgVolume_ + tick.volume, tickCount)
        ofi == OrderFlowImbalance_onTrade(e.ofi_, tick.price, tick.volume, isBuy,
                                          tick.timestamp)
        pressure == BidAskPressure_onTrade(e.pressure_, isBuy, tick.volume)
        aggression == TradeAggression_onTrade(e.aggression_, tick.volume, avgVolume, isBuy)
        volumeDelta == VolumeDelta_onTrade(e.volumeDelta_, tick.volume, isBuy)
        e1 == [e EXCEPT !.tickCount_ = tickCount, !.avgVolume_ = avgVolume,
                        !.ofi_ = ofi, !.pressure_ = pressure,
                        !.aggression_ = aggression, !.volumeDelta_ = volumeDelta]
        ofiResult == getOFI(ofi)
    IN IF ofiResult = <<>> THEN [engine |-> e1, signal |-> <<>>]
       ELSE LET pressureResult == getPressure(pressure)
                aggrScore == getAggression(aggression)
                tox == FlowToxicity_update(e.toxicity_, ofiResult[1].imbalance,
                                           pressureResult.imbalanceRatio, aggrScore)
            IN [engine |-> [e1 EXCEPT !.toxicity_ = tox],
                signal |-> << [ofi |-> ofiResult[1].imbalance,
                               bidPressure |-> ofiResult[1].bidPressure,
                               askPressure |-> ofiResult[1].askPressure,
                               aggression |-> aggrScore,
                               volumeDelta |-> volumeDelta.cumulativeDelta_,
                               toxicity |-> getScore(tox).toxicity,
                               isToxicFlow |-> getScore(tox).isToxic,
                               flowDirection |->
                                   determineFlowDirection(ofiResult[1].imbalance,
                                                          pressureResult.imbalanceRatio),
                               timestamp |-> tick.timestamp] >>]

\* Lines 266-270.
OrderFlowEngine_reset(e) ==
    [e EXCEPT !.volumeDelta_ = VolumeDelta_reset(@), !.avgVolume_ = 0, !.tickCount_ = 0]

\* The signals a newly constructed engine returns on a tick sequence.
RECURSIVE FlowReplay(_, _)
FlowReplay(e, ticks) ==
    IF ticks = <<>> THEN <<>>
    ELSE LET r == OrderFlowEngine_onTick(e, ticks[1].tick, ticks[1].isBuy)
         IN <<r.signal>> \o FlowReplay(r.engine, Tail(ticks))

FlowOnTick ==
    /\ flowLog.n < MaxFlowTicks
    /\ \E volume \in FlowVolumes, isBuy \in BOOLEAN :
          LET tick == [symbol |-> BtSymbol, price |-> 1 * FP, volume |-> volume,
                       timestamp |-> Len(flowLog.ticks) + 1]
              r == OrderFlowEngine_onTick(flow, tick, isBuy)
          IN /\ flow' = r.engine
             /\ flowLog' = [n |-> flowLog.n + 1, resets |-> flowLog.resets,
                            ticks |-> Append(flowLog.ticks, [tick |-> tick, isBuy |-> isBuy]),
                            signals |-> Append(flowLog.signals, r.signal)]
    /\ UNCHANGED exceptFlow

FlowReset ==
    /\ flowLog.n < MaxFlowTicks
    /\ flowLog.ticks # <<>>
    /\ flow' = OrderFlowEngine_reset(flow)
    /\ flowLog' = [n |-> flowLog.n + 1, resets |-> flowLog.resets + 1,
                   ticks |-> <<>>, signals |-> <<>>]
    /\ UNCHANGED exceptFlow

InitFlow ==
    /\ flow = OrderFlowEngine_new
    /\ flowLog = [n |-> 0, resets |-> 0, ticks |-> <<>>, signals |-> <<>>]

----------------------------------------------------------------------------
(* AlphaEngine (src/unnamed/part_001, src/include/alpha/alpha_engine.h) *)

\* Lines 7-11.
AlphaEngine_new(windowSize) ==
    [windowSize_ |-> windowSize, window_ |-> <<>>, sumPrices_ |-> 0, sumSquares_ |-> 0,
     closes_ |-> <<>>, highs_ |-> <<>>, lows_ |-> <<>>, volumes_ |-> <<>>]

\* onTick dropping the oldest tick without taking it out of the sums.
AlphaEngine_onTick_sumsKept(a, tick) ==
    LET pushed == [a EXCEPT !.window_ = Append(@, tick),
                            !.sumPrices_ = @ + tick.price,
                            !.sumSquares_ = @ + Mul(tick.price, tick.price)]
        a1 == IF Len(pushed.window_) > a.windowSize_
              THEN [pushed EXCEPT !.window_ = Tail(@)]
              ELSE pushed
    IN IF Len(a1.window_) < a.windowSize_ THEN [engine |-> a1, signal |-> <<>>]
       ELSE LET n == Len(a1.window_)
                sma == TruncDiv(a1.sumPrices_, n)
                meanSq == TruncDiv(a1.sumSquares_, n)
                variance == Max(0, meanSq - Mul(sma, sma))
                vol == Sqrt(variance)
                oldest == a1.window_[1]
            IN [engine |-> a1,
                signal |-> << [symbol |-> tick.symbol, timestamp |-> tick.timestamp,
                               momentum |-> Div(tick.price, oldest.price) - FP,
                               meanRevZ |-> IF vol > 0 THEN Div(tick.price - sma, vol)
                                            ELSE 0] >>]

\* Lines 13-48: the engine after the tick and the returned signal (<<>> is
\* std::nullopt).
AlphaEngine_onTick(a, tick) ==
    LET pushed == [a EXCEPT !.window_ = Append(@, tick),
                            !.sumPrices_ = @ + tick.price,
                            !.sumSquares_ = @ + Mul(tick.price, tick.price)]
        a1 == IF Len(pushed.window_) > a.windowSize_
              THEN LET old == pushed.window_[1]
                   IN [pushed EXCEPT !.sumPrices_ = @ - old.price,
                                     !.sumSquares_ = @ - Mul(old.price, old.price),
                                     !.window_ = Tail(@)]
              ELSE pushed
    IN IF Len(a1.window_) < a.windowSize_ THEN [engine |-> a1, signal |-> <<>>]
       ELSE LET n == Len(a1.window_)
                sma == TruncDiv(a1.sumPrices_, n)
                meanSq == TruncDiv(a1.sumSquares_, n)
                variance == Max(0, meanSq - Mul(sma, sma))
                vol == Sqrt(variance)
                oldest == a1.window_[1]
            IN [engine |-> a1,
                signal |-> << [symbol |-> tick.symbol, timestamp |-> tick.timestamp,
                               momentum |-> Div(tick.price, oldest.price) - FP,
                               meanRevZ |-> IF vol > 0 THEN Div(tick.price - sma, vol)
                                            ELSE 0] >>]

\* Lines 50-57: the four candle vectors only ever grow.  Lines 59-88 read
\* them to build the record handed to the InfluxWriter and change none.
AlphaEngine_onCandle(a, c) ==
    [a EXCEPT !.closes_ = Append(@, c.close), !.highs_ = Append(@, c.high),
              !.lows_ = Append(@, c.low), !.volumes_ = Append(@, c.volume)]

\* AlphaEngine on its own: window sizes, prices and calls explored.
AlphaWindowSizes == {1, 2, 3}

AlphaPrices == {1 * FP, 2 * FP, 3 * FP}

MaxAlphaTicks == 5

AlphaOnTick ==
    /\ Len(alphaLog.ticks) < MaxAlphaTicks
    /\ \E price \in AlphaPrices :
          LET tick == [symbol |-> BtSymbol, price |-> price, volume |-> 1 * FP,
                       timestamp |-> Len(alphaLog.ticks) + 1]
              r == AlphaEngine_onTick(alphaEngine, tick)
          IN /\ alphaEngine' = r.engine
             /\ alphaLog' = [ticks |-> Append(alphaLog.ticks, tick), signal |-> r.signal]
    /\ UNCHANGED exceptAlpha

InitAlpha ==
    /\ \E windowSize \in AlphaWindowSizes : alphaEngine = AlphaEngine_new(windowSize)
    /\ alphaLog = [ticks |-> <<>>, signal |-> <<>>]

RestAlpha ==
    /\ alphaEngine = AlphaEngine_new(20)
    /\ alphaLog = [ticks |-> <<>>, signal |-> <<>>]

----------------------------------------------------------------------------
(* A long feed into an AlphaEngine and an OrderFlowImbalance *)

\* AlphaEngine(20, "1m") as every caller constructs it (src/src/main.cpp).
AlphaWindowSize == 20

\* Rounds of the feed; a round is one trade, one tick and one closed candle.
SoakRounds == 1001

SoakPrice(n) == 1 * FP + (n % 2)

SoakTickOf(n) ==
    [symbol |-> BtSymbol, price |-> SoakPrice(n), volume |-> 1 * FP, timestamp |-> n]

\* The feed delivers, in turn, a trade to OrderFlowImbalance::onTrade (a buy
\* on odd rounds, a sell on even ones), ...
SoakOnTrade ==
    /\ soak.round <= SoakRounds
    /\ soak.turn = "trade"
    /\ soak' = [soak EXCEPT
                  !.ofi = OrderFlowImbalance_onTrade(@, SoakPrice(soak.round), 1 * FP,
                                                     soak.round % 2 = 1, soak.round),
                  !.turn = "tick"]
    /\ UNCHANGED exceptSoak

\* ... a tick to AlphaEngine::onTick, ...
SoakOnTick ==
    /\ soak.round <= SoakRounds
    /\ soak.turn = "tick"
    /\ soak' = [soak EXCEPT
                  !.alpha = AlphaEngine_onTick(@, SoakTickOf(soak.round)).engine,
                  !.turn = "candle"]
    /\ UNCHANGED exceptSoak

\* ... and a closed candle to AlphaEngine::onCandle.
SoakOnCandle ==
    /\ soak.round <= SoakRounds
    /\ soak.turn = "candle"
    /\ soak' = [soak EXCEPT
                  !.alpha = AlphaEngine_onCandle(@,
                               NewCandle(SoakPrice(soak.round), 1 * FP, soak.round)),
                  !.turn = "trade",
                  !.round = @ + 1]
    /\ UNCHANGED exceptSoak

InitSoak ==
    soak = [alpha |-> AlphaEngine_new(AlphaWindowSize),
            ofi |-> OrderFlowImbalance_new(OfiDefaultWindow),
            turn |-> "trade", round |-> 1]

----------------------------------------------------------------------------
(* VWAPCalculator (src/src/alpha/orderflow.cpp from line 271) *)

\* The literal 10 of line 297.
VwapRecentPrices == 10

\* Lines 273-282.
VWAPCalculator_new(bandMultiplier, rollingWindow) ==
    [bandMultiplier_ |-> bandMultiplier, rollingWindow_ |-> rollingWindow,
     vwap_ |-> 0, cumulativePV_ |-> 0, cumulativeVolume_ |-> 0, cumulativePV2_ |-> 0,
     isAnchored_ |-> FALSE, tickWindow_ |-> <<>>, recentPrices_ |-> <<>>]

\* Lines 371-391.
updateRollingVWAP(v) ==
    IF v.tickWindow_ = <<>> THEN [v EXCEPT !.vwap_ = 0]
    ELSE LET w == v.tickWindow_
             sumPV == SeqSum([i \in 1..Len(w) |-> Mul(w[i].price, w[i].volume)])
             sumV == SeqSum([i \in 1..Len(w) |-> w[i].volume])
             sumPV2 == SeqSum([i \in 1..Len(w) |->
                                  Mul(Mul(w[i].price, w[i].price), w[i].volume)])
         IN [v EXCEPT !.vwap_ = IF sumV > 0 THEN Div(sumPV, sumV) ELSE 0,
                      !.cumulativeVolume_ = sumV,
                      !.cumulativePV_ = sumPV,
                      !.cumulativePV2_ = sumPV2]

\* updateSessionVWAP assigning the tick's volume where line 395 adds it.
updateSessionVWAP_volumeAssigned(v, tick) ==
    LET pv == v.cumulativePV_ + Mul(tick.price, tick.volume)
        vol == tick.volume
    IN [v EXCEPT !.cumulativePV_ = pv,
                 !.cumulativeVolume_ = vol,
                 !.cumulativePV2_ = @ + Mul(Mul(tick.price, tick.price), tick.volume),
                 !.vwap_ = IF vol > 0 THEN Div(pv, vol) ELSE 0]

\* Lines 393-399.
updateSessionVWAP(v, tick) ==
    LET pv == v.cumulativePV_ + Mul(tick.price, tick.volume)
        vol == v.cumulativeVolume_ + tick.volume
    IN [v EXCEPT !.cumulativePV_ = pv,
                 !.cumulativeVolume_ = vol,
                 !.cumulativePV2_ = @ + Mul(Mul(tick.price, tick.price), tick.volume),
                 !.vwap_ = IF vol > 0 THEN Div(pv, vol) ELSE 0]

\* Lines 284-300.
VWAPCalculator_onTick(v, tick) ==
    LET v1 == IF v.rollingWindow_ > 0
              THEN updateRollingVWAP(
                      [v EXCEPT !.tickWindow_ = PushCapped(@, tick, v.rollingWindow_)])
              ELSE updateSessionVWAP(v, tick)
    IN [v1 EXCEPT !.recentPrices_ = PushCapped(@, tick.price, VwapRecentPrices)]

\* Lines 302-311.
VWAPCalculator_reset(v) ==
    [v EXCEPT !.vwap_ = 0, !.cumulativePV_ = 0, !.cumulativeVolume_ = 0,
              !.cumulativePV2_ = 0, !.tickWindow_ = <<>>, !.recentPrices_ = <<>>,
              !.isAnchored_ = FALSE]

\* Line 331: the volume getMetrics() reports.
volumeAtVWAP(v) == v.cumulativeVolume_

\* Calls explored on one calculator.
MaxVwapOps == 4

\* rollingWindow of the instances explored: 0 is session mode.
VwapWindows == {0, 2}

VwapPrices == {1 * FP, 2 * FP}

VwapVolumes == {0, 1 * FP, 2 * FP}

VwapOnTick ==
    /\ vwapLog.n < MaxVwapOps
    /\ \E price \in VwapPrices, volume \in VwapVolumes :
          /\ vwapCalc' = VWAPCalculator_onTick(vwapCalc,
                             [symbol |-> BtSymbol, price |-> price, volume |-> volume,
                              timestamp |-> vwapLog.n + 1])
          /\ vwapLog' = [vwapLog EXCEPT !.n = @ + 1, !.volumes = Append(@, volume)]
    /\ UNCHANGED exceptVwap

VwapReset ==
    /\ vwapLog.n < MaxVwapOps
    /\ vwapCalc' = VWAPCalculator_reset(vwapCalc)
    /\ vwapLog' = [vwapLog EXCEPT !.n = @ + 1, !.volumes = <<>>, !.resets = @ + 1]
    /\ UNCHANGED exceptVwap

InitVwap ==
    /\ \E rollingWindow \in VwapWindows :
          vwapCalc = VWAPCalculator_new(2 * FP, rollingWindow)
    /\ vwapLog = [n |-> 0, volumes |-> <<>>, resets |-> 0]

\* At rest: the session-mode calculator of main.cpp line 106.
RestVwap ==
    /\ vwapCalc = VWAPCalculator_new(2 * FP, 0)
    /\ vwapLog = [n |-> 0, volumes |-> <<>>, resets |-> 0]

----------------------------------------------------------------------------
(* BollingerTracker (src/src/main.cpp lines 41-94) *)

BollingerTracker_new(period) == [period_ |-> period, prices_ |-> <<>>]

\* Lines 46-54: the deque after the price.  Below period_ prices onPrice
\* returns std::nullopt; the metrics of lines 56-87 read the deque only.
BollingerTracker_onPrice(b, price) ==
    [b EXCEPT !.prices_ = PushCapped(@, price, b.period_)]

----------------------------------------------------------------------------
(* RegimeDetector (src/unnamed/part_002) *)

\* Lines 5-13; the cached metrics start at hurstExponent_ 0.5 and zeros.
RegimeDetector_new(window, hurstLag, volWindow) ==
    [window_ |-> window, hurstLag_ |-> hurstLag, volWindow_ |-> volWindow,
     prices_ |-> <<>>, returns_ |-> <<>>, volumes_ |-> <<>>,
     currentRegime_ |-> "UNKNOWN", regimeHistory_ |-> <<>>,
     hurstExponent_ |-> FP \div 2, autocorrelation_ |-> 0, volatility_ |-> 0,
     trendStrength_ |-> 0]

\* std::log(a / b) of line 27, kept as the pair it is taken of: with b = 0 or
\* a / b <= 0 the double is an infinity or a NaN.
LogRatio(a, b) == [logOf |-> a, over |-> b]

\* regime::hurstExponent, lines 282-358.  The regression of lines 343-357
\* needs three lags out of 2..maxLag, that is maxLag >= 4; below that every
\* path returns 0.5, and only those paths are given here.
hurstExponent(prices, maxLag) ==
    LET logReturns == {i \in 2..Len(prices) : prices[i] > 0 /\ prices[i - 1] > 0}
        lags == {lag \in 2..maxLag : lag <= Cardinality(logReturns) \div 2}
    IN CASE Len(prices) < maxLag * 2 -> FP \div 2
         [] Cardinality(logReturns) < maxLag -> FP \div 2
         [] Cardinality(lags) < 3 -> FP \div 2

\* Lines 166-171.
computeHurstExponent(r) ==
    IF Len(r.prices_) < r.hurstLag_ * 2 THEN FP \div 2
    ELSE hurstExponent(r.prices_, r.hurstLag_)

\* Lines 173-178, 180-196 and 198-224, each on the path taken while fewer
\* than 11 returns, 10 returns and 20 prices are held.
computeAutocorrelation(r, lag) == CASE Len(r.returns_) < lag + 10 -> 0

computeRealizedVolatility(r) == CASE Len(r.returns_) < 10 -> 0

computeTrendStrength(r) == CASE Len(r.prices_) < 20 -> 0

\* Lines 143-148.
updateMetrics(r) ==
    [r EXCEPT !.hurstExponent_ = computeHurstExponent(r),
              !.autocorrelation_ = computeAutocorrelation(r, 1),
              !.volatility_ = computeRealizedVolatility(r),
              !.trendStrength_ = computeTrendStrength(r)]

\* Lines 226-233.
computeVolatilityRegime(r) ==
    IF r.volatility_ <= 0 THEN FP \div 2 ELSE Min(r.volatility_, FP)

\* Lines 150-164: 0.6 and 0.55 are 60 and 55 hundredths.
classifyRegime(r) ==
    LET highVol == computeVolatilityRegime(r) > 60
        trending == r.hurstExponent_ > 55 \/ r.trendStrength_ > 60
    IN IF trending /\ highVol THEN "TRENDING_HIGH_VOL"
       ELSE IF trending THEN "TRENDING_LOW_VOL"
       ELSE IF highVol THEN "MEAN_REVERTING_HIGH_VOL"
       ELSE "MEAN_REVERTING_LOW_VOL"

\* Lines 16-32 and 51-66: the price, the volume and the return are stored.
RegimeStore(r, price, volume) ==
    LET prices == PushCapped(r.prices_, price, r.window_)
        volumes == PushCapped(r.volumes_, volume, r.window_)
        returns == IF Len(prices) >= 2
                   THEN PushCapped(r.returns_,
                                   LogRatio(Last(prices), prices[Len(prices) - 1]),
                                   r.window_)
                   ELSE r.returns_
    IN [r EXCEPT !.prices_ = prices, !.volumes_ = volumes, !.returns_ = returns]

\* onTick without the test of line 35: the metrics are updated on every tick.
RegimeDetector_onTick_alwaysUpdates(r, tick) ==
    LET stored == RegimeStore(r, tick.price, tick.volume)
        updated == updateMetrics(stored)
        newRegime == classifyRegime(updated)
    IN IF newRegime # updated.currentRegime_
       THEN [updated EXCEPT !.currentRegime_ = newRegime,
                            !.regimeHistory_ = PushCapped(@, newRegime, 50)]
       ELSE updated

\* onTick without the assignment of line 40: the new regime is only recorded.
RegimeDetector_onTick_historyOnly(r, tick) ==
    LET stored == RegimeStore(r, tick.price, tick.volume)
    IN IF Len(stored.prices_) >= stored.hurstLag_ * 2
       THEN LET updated == updateMetrics(stored)
                newRegime == classifyRegime(updated)
            IN IF newRegime # updated.currentRegime_
               THEN [updated EXCEPT !.regimeHistory_ = PushCapped(@, newRegime, 50)]
               ELSE updated
       ELSE stored

\* Lines 15-48.
RegimeDetector_onTick(r, tick) ==
    LET stored == RegimeStore(r, tick.price, tick.volume)
    IN IF Len(stored.prices_) >= stored.hurstLag_ * 2
       THEN LET updated == updateMetrics(stored)
                newRegime == classifyRegime(updated)
            IN IF newRegime # updated.currentRegime_
               THEN [updated EXCEPT !.currentRegime_ = newRegime,
                                    !.regimeHistory_ = PushCapped(@, newRegime, 50)]
               ELSE updated
       ELSE stored

\* Lines 50-77.
RegimeDetector_onCandle(r, candle) ==
    LET stored == RegimeStore(r, candle.close, candle.volume)
    IN IF Len(stored.prices_) >= stored.hurstLag_ * 2
       THEN LET updated == updateMetrics(stored)
                newRegime == classifyRegime(updated)
            IN [updated EXCEPT !.currentRegime_ = newRegime,
                               !.regimeHistory_ = PushCapped(@, newRegime, 50)]
       ELSE stored

\* Lines 130-140.
RegimeDetector_reset(r) == RegimeDetector_new(r.window_, r.hurstLag_, r.volWindow_)

\* Lines 79-101.
RegimeDetector_getMetrics(r) ==
    LET n == Len(r.regimeHistory_)
        matches == Cardinality({i \in (n - 4)..n : r.regimeHistory_[i] = r.currentRegime_})
    IN [regime |-> r.currentRegime_, hurstExponent |-> r.hurstExponent_,
        autocorrelation |-> r.autocorrelation_, volatility |-> r.volatility_,
        volRegime |-> computeVolatilityRegime(r),
        trendStrength |-> r.trendStrength_,
        confidence |-> IF n < 5 THEN 30 ELSE TruncDiv(matches * FP, 5)]

\* Lines 235-278, in hundredths.
computeSignalWeights(regime) ==
    CASE regime = "TRENDING_HIGH_VOL" ->
            [momentumWeight |-> 70, meanRevWeight |-> 20, breakoutWeight |-> 50,
             volatilityAdjust |-> 150]
      [] regime = "TRENDING_LOW_VOL" ->
            [momentumWeight |-> 80, meanRevWeight |-> 10, breakoutWeight |-> 60,
             volatilityAdjust |-> 100]
      [] regime = "MEAN_REVERTING_HIGH_VOL" ->
            [momentumWeight |-> 20, meanRevWeight |-> 70, breakoutWeight |-> 30,
             volatilityAdjust |-> 120]
      [] regime = "MEAN_REVERTING_LOW_VOL" ->
            [momentumWeight |-> 30, meanRevWeight |-> 80, breakoutWeight |-> 40,
             volatilityAdjust |-> 80]
      [] OTHER ->
            [momentumWeight |-> 50, meanRevWeight |-> 50, breakoutWeight |-> 50,
             volatilityAdjust |-> 100]

\* Lines 103-105.
RegimeDetector_getSignalWeights(r) == computeSignalWeights(r.currentRegime_)

RegimeNeedsMetrics(r) == Len(r.prices_) + 1 >= r.hurstLag_ * 2

\* Detectors explored: (window, hurstLag, volWindow).
RegimeParams == {<<3, 2, 2>>, <<5, 1, 2>>, <<5, 2, 2>>}

MaxRegimeOps == 6

RegimePrices == {0, 1 * FP, 2 * FP}

\* Line 35 (and 68): the test that guards updateMetrics, after the store.
RegimeEvaluates(r, price) ==
    Len(RegimeStore(r, price, 1 * FP).prices_) >= r.hurstLag_ * 2

\* The log after a call that stored a price: sameRun counts the consecutive
\* evaluated onTick calls that classified the same regime.
RegimeLogAfter(evaluates, viaTick) ==
    [received |-> regimeLog.received + 1,
     ops |-> regimeLog.ops + 1,
     evaluated |-> regimeLog.evaluated \/ evaluates,
     sameRun |-> IF ~(evaluates /\ viaTick) THEN 0
                 ELSE IF regimeLog.sameRun > 0
                         /\ detector'.currentRegime_ = detector.currentRegime_
                      THEN regimeLog.sameRun + 1
                      ELSE 1]

RegimeOnTick ==
    /\ regimeLog.ops < MaxRegimeOps
    /\ \E price \in RegimePrices :
          /\ detector' = RegimeDetector_onTick(detector,
                           [symbol |-> BtSymbol, price |-> price, volume |-> 1 * FP,
                            timestamp |-> regimeLog.ops + 1])
          /\ regimeLog' = RegimeLogAfter(RegimeEvaluates(detector, price), TRUE)
    /\ UNCHANGED exceptRegime

RegimeOnCandle ==
    /\ regimeLog.ops < MaxRegimeOps
    /\ \E close \in RegimePrices :
          /\ detector' = RegimeDetector_onCandle(detector,
                                                 [close |-> close, volume |-> 1 * FP])
          /\ regimeLog' = RegimeLogAfter(RegimeEvaluates(detector, close), FALSE)
    /\ UNCHANGED exceptRegime

RegimeReset ==
    /\ regimeLog.ops < MaxRegimeOps
    /\ regimeLog.received > 0
    /\ detector' = RegimeDetector_reset(detector)
    /\ regimeLog' = [received |-> 0, ops |-> regimeLog.ops + 1, evaluated |-> FALSE,
                     sameRun |-> 0]
    /\ UNCHANGED exceptRegime

InitRegime ==
    /\ \E p \in RegimeParams : detector = RegimeDetector_new(p[1], p[2], p[3])
    /\ regimeLog = [received |-> 0, ops |-> 0, evaluated |-> FALSE, sameRun |-> 0]

RestRegime ==
    /\ detector = RegimeDetector_new(100, 20, 50)
    /\ regimeLog = [received |-> 0, ops |-> 0, evaluated |-> FALSE, sameRun |-> 0]

----------------------------------------------------------------------------
(* ProductionAlphaSystem (src/src/main.cpp lines 100-320) *)

MaxPipeTicks == 3

PipePrices == {-1 * FP, 0, 1 * FP, 2 * FP}

\* Lines 102-121, with no INFLUX_* environment: influx_ stays null.
ProductionAlphaSystem_new ==
    [alphaEngine_ |-> AlphaEngine_new(AlphaWindowSize),
     microstructure_ |-> MicrostructureAnalyzer_new(50, 50, 100),
     orderflow_ |-> OrderFlowEngine_new,
     regime_ |-> RegimeDetector_new(100, 20, 50),
     vwap_ |-> VWAPCalculator_new(2 * FP, 0),
     bollinger_ |-> BollingerTracker_new(20),
     lastPrice_ |-> 0, tickCount_ |-> 0]

\* Lines 123-191: every analyzer is fed the tick as it comes.
processMarketTick(sys, tick) ==
    LET isBuy == tick.price > sys.lastPrice_
    IN [sys EXCEPT
          !.alphaEngine_ = AlphaEngine_onTick(@, tick).engine,
          !.microstructure_ = MicrostructureAnalyzer_onTick(@, tick),
          !.orderflow_ = OrderFlowEngine_onTick(@, tick, isBuy).engine,
          !.regime_ = RegimeDetector_onTick(@, tick),
          !.vwap_ = VWAPCalculator_onTick(@, tick),
          !.bollinger_ = BollingerTracker_onPrice(@, tick.price),
          !.lastPrice_ = tick.price,
          !.tickCount_ = @ + 1]

\* What the analyzers of a system hold.
AnalyzerState(sys) ==
    <<sys.alphaEngine_, sys.microstructure_, sys.orderflow_, sys.regime_, sys.vwap_,
      sys.bollinger_, sys.lastPrice_>>

ProcessMarketTick ==
    /\ pipe.tickCount_ < MaxPipeTicks
    /\ ~RegimeNeedsMetrics(pipe.regime_)
    /\ \E price \in PipePrices, timestamp \in {-1, pipe.tickCount_ + 1} :
          LET tick == [symbol |-> BtSymbol, price |-> price, volume |-> 1 * FP,
                       timestamp |-> timestamp]
          IN /\ pipe' = processMarketTick(pipe, tick)
             /\ pipeTick' = tick
    /\ UNCHANGED exceptPipe

InitPipe ==
    /\ pipe = ProductionAlphaSystem_new
    /\ pipeTick = [symbol |-> BtSymbol, price |-> 1 * FP, volume |-> 0, timestamp |-> 0]

----------------------------------------------------------------------------
(* InfluxWriter (src/src/storage/influx_writer.cpp) *)

\* Threads calling writeAsync.
Producers == {"p1", "p2"}

\* Line-protocol strings handed to writeAsync.
Payloads == {"", "tick"}

\* writeAsync calls explored.
MaxWrites == 3

\* flush calls explored.
MaxFlushes == 2

\* Lines 5-13: the constructor starts the worker thread.
InfluxWriter_new == [writeQueue_ |-> <<>>, queueMutex_ |-> "free", running_ |-> TRUE]

\* writeAsync calls made so far: those that have pushed and those in progress.
WriteAsyncCalls ==
    influxLog.enqueued + Cardinality({p \in Producers : threads.producer[p].pc # "idle"})

\* Lines 137-140, writeAsync: the call, the lock_guard, the push.  A queued
\* record carries, next to its string, the thread that made the call, the
\* number of the call and the number of the push.
WriteAsyncCall ==
    /\ threads.dtor = "none"
    /\ WriteAsyncCalls < MaxWrites
    /\ \E p \in Producers, lineProtocol \in Payloads :
          /\ threads.producer[p].pc = "idle"
          /\ threads' = [threads EXCEPT !.producer[p] =
                                           [pc |-> "lock", lineProtocol |-> lineProtocol,
                                            call |-> WriteAsyncCalls + 1]]
    /\ UNCHANGED <<influx, influxLog, exceptInflux>>

WriteAsyncLock ==
    /\ influx.queueMutex_ = "free"
    /\ \E p \in Producers :
          /\ threads.producer[p].pc = "lock"
          /\ influx' = [influx EXCEPT !.queueMutex_ = p]
          /\ threads' = [threads EXCEPT !.producer[p].pc = "locked"]
    /\ UNCHANGED <<influxLog, exceptInflux>>

\* writeAsync putting its record at the head of the queue.
WriteAsyncPush_pushesFront ==
    /\ \E p \in Producers :
          /\ threads.producer[p].pc = "locked"
          /\ influx' = [influx EXCEPT
                          !.writeQueue_ =
                              <<[data |-> threads.producer[p].lineProtocol,
                                 seq |-> influxLog.enqueued + 1,
                                 by |-> p,
                                 call |-> threads.producer[p].call]>> \o @,
                          !.queueMutex_ = "free"]
          /\ threads' = [threads EXCEPT !.producer[p] =
                                           [pc |-> "idle", lineProtocol |-> "", call |-> 0]]
    /\ influxLog' = [influxLog EXCEPT !.enqueued = @ + 1]
    /\ UNCHANGED exceptInflux

WriteAsyncPush ==
    /\ \E p \in Producers :
          /\ threads.producer[p].pc = "locked"
          /\ influx' = [influx EXCEPT
                          !.writeQueue_ =
                              Append(@, [data |-> threads.producer[p].lineProtocol,
                                         seq |-> influxLog.enqueued + 1,
                                         by |-> p,
                                         call |-> threads.producer[p].call]),
                          !.queueMutex_ = "free"]
          /\ threads' = [threads EXCEPT !.producer[p] =
                                           [pc |-> "idle", lineProtocol |-> "", call |-> 0]]
    /\ influxLog' = [influxLog EXCEPT !.enqueued = @ + 1]
    /\ UNCHANGED exceptInflux

\* Lines 142-160, writerLoop: the while test, ...
WorkerLoop ==
    /\ threads.worker.pc = "loop"
    /\ threads' = [threads EXCEPT !.worker =
                      [pc |-> IF influx.running_ THEN "lock" ELSE "exited",
                       data |-> "", seq |-> 0, by |-> "", call |-> 0]]
    /\ UNCHANGED <<influx, influxLog, exceptInflux>>

\* ... the lock_guard of line 146, ...
WorkerLock ==
    /\ threads.worker.pc = "lock"
    /\ influx.queueMutex_ = "free"
    /\ influx' = [influx EXCEPT !.queueMutex_ = "worker"]
    /\ threads' = [threads EXCEPT !.worker.pc = "locked"]
    /\ UNCHANGED <<influxLog, exceptInflux>>

\* The pop with the lock_guard living until the end of the iteration.
WorkerPop_mutexKept ==
    /\ threads.worker.pc = "locked"
    /\ LET data == IF influx.writeQueue_ # <<>> THEN Head(influx.writeQueue_).data ELSE ""
           seq == IF influx.writeQueue_ # <<>> THEN Head(influx.writeQueue_).seq ELSE 0
           by == IF influx.writeQueue_ # <<>> THEN Head(influx.writeQueue_).by ELSE ""
           call == IF influx.writeQueue_ # <<>> THEN Head(influx.writeQueue_).call ELSE 0
       IN /\ influx' = [influx EXCEPT !.writeQueue_ = PopFront(@)]
          /\ threads' = [threads EXCEPT !.worker =
                            [pc |-> IF data # "" THEN "write" ELSE "sleep",
                             data |-> data, seq |-> seq, by |-> by, call |-> call]]
    /\ UNCHANGED <<influxLog, exceptInflux>>

\* ... the pop of lines 147-150 and the release of the mutex, ...
WorkerPop ==
    /\ threads.worker.pc = "locked"
    /\ LET data == IF influx.writeQueue_ # <<>> THEN Head(influx.writeQueue_).data ELSE ""
           seq == IF influx.writeQueue_ # <<>> THEN Head(influx.writeQueue_).seq ELSE 0
           by == IF influx.writeQueue_ # <<>> THEN Head(influx.writeQueue_).by ELSE ""
           call == IF influx.writeQueue_ # <<>> THEN Head(influx.writeQueue_).call ELSE 0
       IN /\ influx' = [influx EXCEPT !.writeQueue_ = PopFront(@), !.queueMutex_ = "free"]
          /\ threads' = [threads EXCEPT !.worker =
                            [pc |-> IF data # "" THEN "write" ELSE "sleep",
                             data |-> data, seq |-> seq, by |-> by, call |-> call]]
    /\ UNCHANGED <<influxLog, exceptInflux>>

\* writeToInflux putting a record whose write failed back on the queue.
WorkerWrite_retries ==
    /\ threads.worker.pc = "write"
    /\ \E ok \in BOOLEAN :
          /\ influxLog' = [influxLog EXCEPT !.written =
                              Append(@, [data |-> threads.worker.data,
                                         seq |-> threads.worker.seq,
                                         by |-> threads.worker.by,
                                         call |-> threads.worker.call, ok |-> ok])]
          /\ influx' = IF ok THEN influx
                       ELSE [influx EXCEPT !.writeQueue_ =
                                Append(@, [data |-> threads.worker.data,
                                           seq |-> threads.worker.seq,
                                           by |-> threads.worker.by,
                                           call |-> threads.worker.call])]
    /\ threads' = [threads EXCEPT !.worker.pc = "loop"]
    /\ UNCHANGED exceptInflux

\* ... writeToInflux (lines 162-177), whose curl may fail, ...
WorkerWrite ==
    /\ threads.worker.pc = "write"
    /\ \E ok \in BOOLEAN :
          influxLog' = [influxLog EXCEPT !.written =
                           Append(@, [data |-> threads.worker.data,
                                      seq |-> threads.worker.seq,
                                      by |-> threads.worker.by,
                                      call |-> threads.worker.call, ok |-> ok])]
    /\ threads' = [threads EXCEPT !.worker.pc = "loop"]
    /\ UNCHANGED <<influx, exceptInflux>>

\* ... or the 10 ms sleep of line 157.
WorkerSleep ==
    /\ threads.worker.pc = "sleep"
    /\ threads' = [threads EXCEPT !.worker.pc = "loop"]
    /\ UNCHANGED <<influx, influxLog, exceptInflux>>

\* Lines 179-185, flush: the call, ...
FlushCall ==
    /\ threads.dtor = "none"
    /\ threads.flusher \in {"idle", "returned"}
    /\ influxLog.flushes < MaxFlushes
    /\ threads' = [threads EXCEPT !.flusher = "lock"]
    /\ influxLog' = [influxLog EXCEPT !.flushes = @ + 1]
    /\ UNCHANGED <<influx, exceptInflux>>

\* ... the lock_guard of line 181, ...
FlushLock ==
    /\ threads.flusher = "lock"
    /\ influx.queueMutex_ = "free"
    /\ influx' = [influx EXCEPT !.queueMutex_ = "flusher"]
    /\ threads' = [threads EXCEPT !.flusher = "locked"]
    /\ UNCHANGED <<influxLog, exceptInflux>>

\* ... the test of line 182, which leaves the loop on an empty queue, ...
FlushTest ==
    /\ threads.flusher = "locked"
    /\ IF influx.writeQueue_ = <<>>
       THEN /\ influx' = [influx EXCEPT !.queueMutex_ = "free"]
            /\ threads' = [threads EXCEPT !.flusher = "returned"]
       ELSE /\ threads' = [threads EXCEPT !.flusher = "sleep"]
            /\ UNCHANGED influx
    /\ UNCHANGED <<influxLog, exceptInflux>>

\* ... and the sleep of line 183, taken with the mutex held; the lock_guard
\* releases it at the end of the iteration and the next one takes it again.
FlushSleep ==
    /\ threads.flusher = "sleep"
    /\ influx' = [influx EXCEPT !.queueMutex_ = "free"]
    /\ threads' = [threads EXCEPT !.flusher = "lock"]
    /\ UNCHANGED <<influxLog, exceptInflux>>

\* Lines 15-20, the destructor, once no call is in progress: running_ is
\* cleared, ...
DestructorBegin ==
    /\ threads.dtor = "none"
    /\ threads.flusher \in {"idle", "returned"}
    /\ \A p \in Producers : threads.producer[p].pc = "idle"
    /\ influx' = [influx EXCEPT !.running_ = FALSE]
    /\ threads' = [threads EXCEPT !.dtor = "join"]
    /\ UNCHANGED <<influxLog, exceptInflux>>

\* ... and the worker joined.
DestructorJoin ==
    /\ threads.dtor = "join"
    /\ threads.worker.pc = "exited"
    /\ threads' = [threads EXCEPT !.dtor = "done"]
    /\ UNCHANGED <<influx, influxLog, exceptInflux>>

InitInflux ==
    /\ influx = InfluxWriter_new
    /\ threads = [worker |-> [pc |-> "loop", data |-> "", seq |-> 0, by |-> "", call |-> 0],
                  flusher |-> "idle",
                  producer |-> [p \in Producers |->
                                   [pc |-> "idle", lineProtocol |-> "", call |-> 0]],
                  dtor |-> "none"]
    /\ influxLog = [enqueued |-> 0, flushes |-> 0, written |-> <<>>]

\* The steps of each thread once it has been started or has made its call.
WorkerThread == WorkerLoop \/ WorkerLock \/ WorkerPop \/ WorkerWrite \/ WorkerSleep

FlushThread == FlushLock \/ FlushTest \/ FlushSleep

ProducerThread == WriteAsyncLock \/ WriteAsyncPush

----------------------------------------------------------------------------
(* BinancePublicFeed and runAllExchanges (src/src/feeds/binance_feed.cpp, *)
(* src/src/main.cpp lines 404-462)                                        *)

\* The symbols of the Binance feed (main.cpp line 411).
FeedSymbols == {"BTCUSDT", "BNBUSDT"}

\* Messages accepted, and how many messages may be of the second symbol or
\* carry price 0.
MaxFeedTicks == 21

MaxOtherTicks == 1

MaxZeroPrice == 1

FeedPrice(symbol, n) == IF symbol = "BTCUSDT" THEN 1 * FP + (n % 2) ELSE 2 * FP

\* part_001 lines 25 and 38-45: AlphaEngine::onTick hands one alpha_signal
\* record to the file-static InfluxWriter whenever it returns a signal.
AlphaSignalWrites(signal, tick) ==
    IF signal = <<>> THEN <<>>
    ELSE <<[writer |-> "static", measurement |-> "alpha_signal",
            symbol |-> tick.symbol, timestamp |-> tick.timestamp]>>

\* main.cpp lines 125 and 148-188: the records processMarketTick enqueues,
\* through its AlphaEngine and, when the INFLUX_* environment attached a
\* writer, through influx_.
processMarketTick_writes(sys, tick, attached) ==
    AlphaSignalWrites(AlphaEngine_onTick(sys.alphaEngine_, tick).signal, tick)
    \o (IF attached
        THEN [i \in 1..4 |->
                [writer |-> "influx_",
                 measurement |-> <<"alpha_signal", "microstructure",
                                   "orderflow", "regime">>[i],
                 symbol |-> tick.symbol, timestamp |-> tick.timestamp]]
        ELSE <<>>)

\* main.cpp lines 408-414 and 429-439: one ProductionAlphaSystem per symbol,
\* one AlphaEngine and one CandleAggregator for the whole feed.
BinancePublicFeed_new(attached) ==
    [engine_ |-> AlphaEngine_new(AlphaWindowSize),
     aggregator_ |-> AggInit,
     alphaSystems |-> [s \in FeedSymbols |-> ProductionAlphaSystem_new],
     attached |-> attached]

\* binance_feed.cpp lines 86-135 with the callback of main.cpp lines 451-456:
\* the feed after the message, the records enqueued while handling it and
\* the signal of the feed's engine.
handleMessage(f, symbol, price, quantity, timestamp) ==
    IF symbol = "" \/ price = 0
    THEN [feed |-> f, records |-> <<>>, signal |-> <<>>, accepted |-> FALSE]
    ELSE LET tick == [symbol |-> symbol, price |-> price, volume |-> quantity,
                      timestamp |-> timestamp]
             found == symbol \in DOMAIN f.alphaSystems
             callbackWrites == IF found
                               THEN processMarketTick_writes(f.alphaSystems[symbol],
                                                             tick, f.attached)
                               ELSE <<>>
             r == AlphaEngine_onTick(f.engine_, tick)
         IN [feed |-> [f EXCEPT
                         !.aggregator_ =
                             CandleAggregator_onTick(@, price, quantity, timestamp).agg,
                         !.alphaSystems =
                             IF found
                             THEN [s \in DOMAIN f.alphaSystems |->
                                     IF s = symbol
                                     THEN processMarketTick(f.alphaSystems[s], tick)
                                     ELSE f.alphaSystems[s]]
                             ELSE f.alphaSystems,
                         !.engine_ = r.engine],
             records |-> callbackWrites \o AlphaSignalWrites(r.signal, tick),
             signal |-> r.signal,
             accepted |-> TRUE]

FeedHandleMessage ==
    /\ Len(feedLog.ticks) < MaxFeedTicks
    /\ \A s \in FeedSymbols : ~RegimeNeedsMetrics(feed.alphaSystems[s].regime_)
    /\ \E symbol \in FeedSymbols, zero \in BOOLEAN :
          /\ symbol = "BNBUSDT" => feedLog.other < MaxOtherTicks
          /\ zero => feedLog.zero < MaxZeroPrice
          /\ LET n == Len(feedLog.ticks) + 1
                 price == IF zero THEN 0 ELSE FeedPrice(symbol, n)
                 r == handleMessage(feed, symbol, price, 1 * FP, n)
             IN /\ feed' = r.feed
                /\ feedLog' = [other |-> feedLog.other
                                           + (IF symbol = "BNBUSDT" THEN 1 ELSE 0),
                               zero |-> feedLog.zero + (IF zero THEN 1 ELSE 0),
                               ticks |-> IF r.accepted
                                         THEN Append(feedLog.ticks,
                                                     [symbol |-> symbol, price |-> price,
                                                      volume |-> 1 * FP, timestamp |-> n])
                                         ELSE feedLog.ticks,
                               accepted |-> r.accepted,
                               records |-> r.records,
                               signal |-> r.signal]
    /\ UNCHANGED exceptFeed

InitFeed ==
    /\ \E attached \in BOOLEAN : feed = BinancePublicFeed_new(attached)
    /\ feedLog = [other |-> 0, zero |-> 0, ticks |-> <<>>, accepted |-> FALSE,
                  records |-> <<>>, signal |-> <<>>]

\* At rest: the feed of a process without the INFLUX_* environment.
RestFeed ==
    /\ feed = BinancePublicFeed_new(FALSE)
    /\ feedLog = [other |-> 0, zero |-> 0, ticks |-> <<>>, accepted |-> FALSE,
                  records |-> <<>>, signal |-> <<>>]

----------------------------------------------------------------------------
(* Specifications: one per component, the others held at rest *)

RestAgg == InitAgg

RestPnL == pnlTracker_ = PnLTracker_new(InitialCash) /\ pnlPrice = 10 * FP /\ pnlTrade = <<>>

RestBt ==
    /\ config_ = [initialCapital |-> InitialCash, commissionRate |-> 10,
                  slippageBps |-> 2, maxPositionSize |-> 50,
                  enableShortSelling |-> TRUE, enableMarginTrading |-> FALSE,
                  marginRequirement |-> 50]
    /\ bt = Backtester_new(config_)
    /\ btRun = NoRun
    /\ btResult = NoResult
    /\ btWalk = NoWalk
    /\ btLaps = 0

RestMicro == micro = MicrostructureAnalyzer_new(50, 50, 100) /\ microTicks = 0

NextCandle == AggOnTick

StartCandle ==
    /\ InitAgg
    /\ RestPnL
    /\ RestBt
    /\ RestMicro
    /\ InitFlow
    /\ InitSoak
    /\ InitPipe
    /\ InitInflux
    /\ RestFeed
    /\ RestStat
    /\ RestVwap
    /\ RestRegime
    /\ RestAlpha

SpecCandle == StartCandle /\ [][NextCandle]_vars

NextPnL == PnLAdd \/ PnLClose \/ PnLClosePartial

StartPnL ==
    /\ RestAgg
    /\ InitPnL
    /\ RestBt
    /\ RestMicro
    /\ InitFlow
    /\ InitSoak
    /\ InitPipe
    /\ InitInflux
    /\ RestFeed
    /\ RestStat
    /\ RestVwap
    /\ RestRegime
    /\ RestAlpha

SpecPnL == StartPnL /\ [][NextPnL]_vars

NextPnLMarked == PnLAddAt \/ PnLCloseAt \/ PnLUpdatePrice

SpecPnLMarked == StartPnL /\ [][NextPnLMarked]_vars

NextBacktest == BtRunBegin \/ BtTick \/ BtRunEnd

StartBacktest ==
    /\ RestAgg
    /\ RestPnL
    /\ InitBt
    /\ RestMicro
    /\ InitFlow
    /\ InitSoak
    /\ InitPipe
    /\ InitInflux
    /\ RestFeed
    /\ RestStat
    /\ RestVwap
    /\ RestRegime
    /\ RestAlpha

SpecBacktest == StartBacktest /\ [][NextBacktest]_vars

NextWalk == WalkForwardCall \/ WalkForwardIteration \/ WalkForwardReturn

StartWalk ==
    /\ RestAgg
    /\ RestPnL
    /\ RestBt
    /\ RestMicro
    /\ InitFlow
    /\ InitSoak
    /\ InitPipe
    /\ InitInflux
    /\ RestFeed
    /\ RestStat
    /\ RestVwap
    /\ RestRegime
    /\ RestAlpha

SpecWalk == StartWalk /\ [][NextWalk]_vars

NextWalkAny == WalkForwardCallAny \/ WalkForwardIteration \/ WalkForwardReturn

\* The steps of WalkForwardIteration, told by the loop test of line 94 and the
\* change of btLaps alone.
WalkForwardLoops ==
    /\ btWalk.pc = "loop"
    /\ WalkForwardContinues(btWalk)
    /\ btLaps' = 1 - btLaps

\* walkForward runs on its caller's thread, which keeps executing: the loop
\* body and the return are taken whenever they are the next statement.
SpecWalkFair ==
    /\ StartWalk
    /\ [][NextWalkAny]_vars
    /\ WF_btLaps(WalkForwardLoops)
    /\ WF_vars(WalkForwardReturn)

NextMicro == MicroOnTick \/ MicroReset

StartMicro ==
    /\ RestAgg
    /\ RestPnL
    /\ RestBt
    /\ InitMicro
    /\ InitFlow
    /\ InitSoak
    /\ InitPipe
    /\ InitInflux
    /\ RestFeed
    /\ RestStat
    /\ RestVwap
    /\ RestRegime
    /\ RestAlpha

SpecMicro == StartMicro /\ [][NextMicro]_vars

NextFlow == FlowOnTick \/ FlowReset

StartFlow ==
    /\ RestAgg
    /\ RestPnL
    /\ RestBt
    /\ RestMicro
    /\ InitFlow
    /\ InitSoak
    /\ InitPipe
    /\ InitInflux
    /\ RestFeed
    /\ RestStat
    /\ RestVwap
    /\ RestRegime
    /\ RestAlpha

SpecFlow == StartFlow /\ [][NextFlow]_vars

NextS4 == S4OnTick

NextSoak == SoakOnTrade \/ SoakOnTick \/ SoakOnCandle

StartSoak ==
    /\ RestAgg
    /\ RestPnL
    /\ RestBt
    /\ RestMicro
    /\ InitFlow
    /\ InitSoak
    /\ InitPipe
    /\ InitInflux
    /\ RestFeed
    /\ RestStat
    /\ RestVwap
    /\ RestRegime
    /\ RestAlpha

SpecSoak == StartSoak /\ [][NextSoak]_vars

NextInflux ==
    \/ WriteAsyncCall \/ WriteAsyncLock \/ WriteAsyncPush
    \/ WorkerLoop \/ WorkerLock \/ WorkerPop \/ WorkerWrite \/ WorkerSleep
    \/ FlushCall \/ FlushLock \/ FlushTest \/ FlushSleep
    \/ DestructorBegin \/ DestructorJoin

StartInflux ==
    /\ RestAgg
    /\ RestPnL
    /\ RestBt
    /\ RestMicro
    /\ InitFlow
    /\ InitSoak
    /\ InitPipe
    /\ InitInflux
    /\ RestFeed
    /\ RestStat
    /\ RestVwap
    /\ RestRegime
    /\ RestAlpha

SpecInflux == StartInflux /\ [][NextInflux]_vars

\* Every started thread keeps being scheduled.  A caller waiting for the
\* mutex gets it once the holder has released it and gone on to other work:
\* the worker sleeps or writes after each release, writeAsync returns.
\* std::mutex promises the worker nothing against flush(), which releases
\* the mutex only to take it again at once.
SpecInfluxFair ==
    /\ SpecInflux
    /\ WF_vars(WorkerThread) /\ WF_vars(FlushThread) /\ WF_vars(ProducerThread)
    /\ SF_vars(FlushLock) /\ SF_vars(WriteAsyncLock)
    /\ WF_vars(DestructorJoin)

NextFeed == FeedHandleMessage

StartFeed ==
    /\ RestAgg
    /\ RestPnL
    /\ RestBt
    /\ RestMicro
    /\ InitFlow
    /\ InitSoak
    /\ InitPipe
    /\ InitInflux
    /\ InitFeed
    /\ RestStat
    /\ RestVwap
    /\ RestRegime
    /\ RestAlpha

SpecFeed == StartFeed /\ [][NextFeed]_vars

NextStats == StatMaxDrawdown \/ StatMaxDrawdownPercent \/ StatWinRate

StartStats ==
    /\ RestAgg
    /\ RestPnL
    /\ RestBt
    /\ RestMicro
    /\ InitFlow
    /\ InitSoak
    /\ InitPipe
    /\ InitInflux
    /\ RestFeed
    /\ InitStat
    /\ RestVwap
    /\ RestRegime
    /\ RestAlpha

SpecStats == StartStats /\ [][NextStats]_vars

NextVwap == VwapOnTick \/ VwapReset

StartVwap ==
    /\ RestAgg
    /\ RestPnL
    /\ RestBt
    /\ RestMicro
    /\ InitFlow
    /\ InitSoak
    /\ InitPipe
    /\ InitInflux
    /\ RestFeed
    /\ RestStat
    /\ InitVwap
    /\ RestRegime
    /\ RestAlpha

SpecVwap == StartVwap /\ [][NextVwap]_vars

NextRegime == RegimeOnTick \/ RegimeOnCandle \/ RegimeReset

StartRegime ==
    /\ RestAgg
    /\ RestPnL
    /\ RestBt
    /\ RestMicro
    /\ InitFlow
    /\ InitSoak
    /\ InitPipe
    /\ InitInflux
    /\ RestFeed
    /\ RestStat
    /\ RestVwap
    /\ InitRegime
    /\ RestAlpha

SpecRegime == StartRegime /\ [][NextRegime]_vars

NextAlpha == AlphaOnTick

StartAlpha ==
    /\ RestAgg
    /\ RestPnL
    /\ RestBt
    /\ RestMicro
    /\ InitFlow
    /\ InitSoak
    /\ InitPipe
    /\ InitInflux
    /\ RestFeed
    /\ RestStat
    /\ RestVwap
    /\ RestRegime
    /\ InitAlpha

SpecAlpha == StartAlpha /\ [][NextAlpha]_vars

NextPipeline == ProcessMarketTick

StartPipeline ==
    /\ RestAgg
    /\ RestPnL
    /\ RestBt
    /\ RestMicro
    /\ InitFlow
    /\ InitSoak
    /\ InitPipe
    /\ InitInflux
    /\ RestFeed
    /\ RestStat
    /\ RestVwap
    /\ RestRegime
    /\ RestAlpha

SpecPipeline == StartPipeline /\ [][NextPipeline]_vars

StartS4 ==
    /\ RestAgg
    /\ RestPnL
    /\ RestBt
    /\ InitS4
    /\ InitFlow
    /\ InitSoak
    /\ InitPipe
    /\ InitInflux
    /\ RestFeed
    /\ RestStat
    /\ RestVwap
    /\ RestRegime
    /\ RestAlpha

SpecS4 == StartS4 /\ [][NextS4]_vars

----------------------------------------------------------------------------
(* Properties *)

CandleEmitted == Len(emitted') = Len(emitted) + 1

\* C1: a long round trip (+1 at p1 opens a long, -1 at p2 > p1 closes it)
\* yields exactly one Trade whose quantity is the size of the long held,
\* whose entryPrice is the slipped entry price and whose pnl is
\* (exit - entry) * quantity > 0, so numWinningTrades = 1 and winRate = 1.0.
C1_LongRoundTripTrade ==
    (/\ btRun.pc = "done"
     /\ btRun.signals = <<1, -1>>
     /\ btRun.historicalData[2].price > btRun.historicalData[1].price)
    => /\ Len(btResult.trades) = 1
       /\ LET trade == btResult.trades[1]
              entry == bt.pnlTracker_.transactions_[1]
          IN /\ entry.type = "BUY"
             /\ trade.quantity = entry.quantity
             /\ trade.entryPrice = applySlippage(config_, btRun.historicalData[1].price, TRUE)
             /\ trade.pnl = Mul(trade.exitPrice - trade.entryPrice, trade.quantity)
             /\ trade.pnl > 0
       /\ btResult.numWinningTrades = 1
       /\ btResult.winRate = FP

\* C2 (as claimed): the candle handed to onCandleClosed does not include the
\* triggering tick, and the new candle opens at that tick with volume 0.
C2_EmittedExcludesTrigger ==
    [][CandleEmitted =>
          /\ Last(emitted') = agg.currentCandle
          /\ agg'.currentCandle = NewCandle(aggTick'.price, 0, aggTick'.timestamp)]_vars

\* C2 (amended): the candle handed to onCandleClosed includes the triggering
\* tick (high and low extended by its price, close its price, volume
\* increased by its volume, endTime its instant), and the new candle opens at
\* that tick with O=H=L=C=price, volume 0 and start=instant.
C2_EmittedIncludesTrigger ==
    [][CandleEmitted =>
          LET c == agg.currentCandle
              e == Last(emitted')
              n == agg'.currentCandle
              price == aggTick'.price
              instant == aggTick'.timestamp
          IN /\ e.open = c.open /\ e.startTime = c.startTime
             /\ e.high = Max(c.high, price) /\ e.low = Min(c.low, price)
             /\ e.close = price
             /\ e.volume = c.volume + aggTick'.volume
             /\ e.endTime = instant
             /\ n.open = price /\ n.high = price /\ n.low = price /\ n.close = price
             /\ n.volume = 0
             /\ n.startTime = instant /\ agg'.candleStart = instant]_vars

\* A candle has just been emitted on a tick whose price is a new high and
\* whose volume the emitted candle carries on top of earlier volume.
C2_Witness ==
    /\ emitted # <<>>
    /\ Last(emitted).endTime = aggTick.timestamp
    /\ Last(emitted).close = aggTick.price
    /\ Last(emitted).high = aggTick.price
    /\ Last(emitted).open < aggTick.price
    /\ Last(emitted).volume > aggTick.volume
    /\ agg.currentCandle.volume = 0
    /\ agg.candleStart = aggTick.timestamp

\* C6: after any sequence of addPosition, closePosition and
\* closePartialPosition calls at one price, totalValue equals initialCash.
C6_TotalValueIsInitialCash ==
    PnLTracker_getPortfolioMetrics(pnlTracker_).totalValue = pnlTracker_.initialCash_

\* C9: the result's equityCurve and timestamps have one entry per input
\* tick, the entry being cash + position * price after the tick's actions,
\* and maxDrawdown is the largest peak-to-trough decline of that curve.
C9_ResultEquityCurve ==
    btRun.pc = "done" =>
       /\ Len(btResult.equityCurve) = Len(btRun.historicalData)
       /\ btResult.equityCurve = btRun.equityCurve
       /\ btResult.timestamps = btRun.timestamps
       /\ btResult.maxDrawdown = computeMaxDrawdown(btRun.equityCurve)

\* C7: MicrostructureAnalyzer(100, 10) fed ticks of volume 1 with strictly
\* ascending prices has vpin 0 after the first 100 ticks and exactly 1.0
\* after 100 more; every completed bucket has imbalance equal to bucketSize.
C7_S4Vpin ==
    /\ microTicks = S4BucketSize => getVPIN(micro).vpin = 0
    /\ microTicks = 2 * S4BucketSize =>
          /\ getVPIN(micro).vpin = FP
          /\ \A i \in 1..Len(micro.volumeBuckets_) :
                micro.volumeBuckets_[i] = micro.bucketSize_ * FP

\* C8: signedVolume is +volume for BUY, -volume for SELL and 0 for UNKNOWN,
\* so a trade classified UNKNOWN adds no volume to the running VPIN bucket.
C8_SignedVolumeMatchesSide ==
    /\ \A i \in 1..Len(micro.classifiedTrades_) :
          LET c == micro.classifiedTrades_[i]
              volume == micro.tradeHistory_[i].volume
          IN c.signedVolume = (CASE c.side = "BUY" -> volume
                                 [] c.side = "SELL" -> -volume
                                 [] OTHER -> 0)
    /\ (Len(micro.classifiedTrades_) = 1 /\ micro.classifiedTrades_[1].side = "UNKNOWN")
          => micro.currentBucketVolume_ = 0 /\ micro.volumeBuckets_ = <<>>

\* C4: after any tick sequence, reset() followed by a tick sequence T
\* produces exactly the output stream a freshly constructed instance
\* produces on T (here for OrderFlowEngine).
C4_ResetThenReplayIsFresh ==
    flowLog.signals = FlowReplay(OrderFlowEngine_new, flowLog.ticks)

\* C3: a tick with price <= 0 or a negative timestamp delivered to
\* processMarketTick is dropped: the state of every analyzer is the same
\* after the call as before it.
C3_InvalidTickDropped ==
    [][(pipeTick'.price <= 0 \/ pipeTick'.timestamp < 0)
          => AnalyzerState(pipe') = AnalyzerState(pipe)]_vars

\* The largest of the analyzers' construction parameters and of the history
\* caps 50 and 1000.
ContainerBound == Max(Max(AlphaWindowSize, OfiDefaultWindow), Max(50, TradeHistoryCap))

\* C5: after any number of ticks and closed candles every container of the
\* AlphaEngine (tick window, candle vectors) and of the OrderFlowImbalance
\* (volume, price and timestamp deques) holds at most a constant fixed by
\* the construction parameters and the caps 50 and 1000.
C5_ContainersBounded ==
    \A size \in {Len(soak.alpha.window_), Len(soak.alpha.closes_),
                  Len(soak.alpha.highs_), Len(soak.alpha.lows_),
                  Len(soak.alpha.volumes_),
                  Len(soak.ofi.buyVolumes_), Len(soak.ofi.sellVolumes_),
                  Len(soak.ofi.buyPrices_), Len(soak.ofi.sellPrices_),
                  Len(soak.ofi.timestamps_)} :
        size <= ContainerBound

C11_DrainedBeforeWorkerExits ==
    threads.worker.pc = "exited" => influx.writeQueue_ = <<>>

\* C12: records are handed to the network write in the order in which
\* writeAsync enqueued them, for every interleaving of the producers with
\* the worker; two records produced in order by one thread are written in
\* that order.
C12_WrittenInEnqueueOrder ==
    \A i, j \in 1..Len(influxLog.written) :
       i < j =>
          /\ influxLog.written[i].seq < influxLog.written[j].seq
          /\ influxLog.written[i].by = influxLog.written[j].by
                => influxLog.written[i].call < influxLog.written[j].call

\* Three records have been written: two of one thread, and between the
\* calls of two threads a push that overtook an earlier call.
C12_Witness ==
    /\ Len(influxLog.written) = 3
    /\ \E i, j \in 1..3 :
          i < j /\ influxLog.written[i].by = influxLog.written[j].by
    /\ \E i, j \in 1..3 :
          i < j /\ influxLog.written[i].call > influxLog.written[j].call

\* The ticks of a symbol among those the feed accepted.
TicksOf(symbol) == SelectSeq(feedLog.ticks, LAMBDA t : t.symbol = symbol)

\* An AlphaEngine(20, "1m") fed the first k of the given ticks: the engine
\* and the signal of the last call.
RECURSIVE AlphaReplay(_, _)
AlphaReplay(ticks, k) ==
    IF k = 0 THEN [engine |-> AlphaEngine_new(AlphaWindowSize), signal |-> <<>>]
    ELSE AlphaEngine_onTick(AlphaReplay(ticks, k - 1).engine, ticks[k])

\* A CandleAggregator fed the first k of the given ticks.
RECURSIVE AggReplay(_, _)
AggReplay(ticks, k) ==
    IF k = 0 THEN AggInit
    ELSE CandleAggregator_onTick(AggReplay(ticks, k - 1), ticks[k].price,
                                 ticks[k].volume, ticks[k].timestamp).agg

\* C13: for each tick delivered by a feed, at most one record of each
\* measurement (alpha_signal, microstructure, orderflow, regime) is
\* enqueued to the sink.
C13_AtMostOneRecordPerMeasurement ==
    \A measurement \in {"alpha_signal", "microstructure", "orderflow", "regime"} :
       Cardinality({i \in 1..Len(feedLog.records) :
                       feedLog.records[i].measurement = measurement}) <= 1

\* C14: no analyzer state is shared between the pipelines of two symbols:
\* the signal and the candle computed on a tick of a symbol are those
\* computed from the ticks of that symbol alone.
C14_SymbolsAreIndependent ==
    feedLog.accepted =>
       LET own == TicksOf(Last(feedLog.ticks).symbol)
       IN /\ feedLog.signal = AlphaReplay(own, Len(own)).signal
          /\ feed.aggregator_ = AggReplay(own, Len(own))

\* C15: for any sequence of ticks, monotonic in time or not, the candles
\* emitted have non-decreasing startTime and non-decreasing endTime in
\* emission order, and every emitted candle has startTime <= endTime.
C15_EmittedTimesNonDecreasing ==
    /\ \A i \in 1..Len(emitted) : emitted[i].startTime <= emitted[i].endTime
    /\ \A i, j \in 1..Len(emitted) :
          i < j => /\ emitted[i].startTime <= emitted[j].startTime
                   /\ emitted[i].endTime <= emitted[j].endTime

\* Two candles have been emitted from a feed in which a tick was older than
\* the tick before it.
C15_Witness ==
    /\ Len(emitted) = 2
    /\ aggTick.back

\* C16: every emitted candle, and the current candle after every onTick,
\* has low <= open <= high and low <= close <= high, and volume >= 0 when
\* all tick volumes are >= 0.
C16_CandleWellFormed ==
    \A c \in {emitted[i] : i \in 1..Len(emitted)} \cup {agg.currentCandle} :
       /\ c.low <= c.open /\ c.open <= c.high
       /\ c.low <= c.close /\ c.close <= c.high
       /\ c.volume >= 0

\* A candle has been emitted whose open lies strictly between its low and
\* its high, and the current candle has absorbed a tick above its open.
C16_Witness ==
    /\ emitted # <<>>
    /\ emitted[1].low < emitted[1].open
    /\ emitted[1].open < emitted[1].high
    /\ emitted[1].volume > 0
    /\ agg.currentCandle.open < agg.currentCandle.close
    /\ agg.currentCandle.volume > 0

\* C17: for any sequence of ticks with price > 0 and volume >= 0 and any
\* bucketSize >= 1, after every onTick getVPIN() returns vpin, imbalance and
\* toxicity in [0,1].
C17_VpinMetricsInUnitInterval ==
    LET metrics == getVPIN(micro)
    IN /\ 0 <= metrics.vpin /\ metrics.vpin <= FP
       /\ 0 <= metrics.imbalance /\ metrics.imbalance <= FP
       /\ 0 <= metrics.toxicity /\ metrics.toxicity <= FP

\* Ticks have filled at least two buckets, one of them with more volume
\* than its size, and the three metrics are positive with the toxicity
\* strictly inside the interval.
C17_Witness ==
    LET metrics == getVPIN(micro)
    IN /\ Len(micro.volumeBuckets_) >= 2
       /\ \E i \in 1..Len(micro.volumeBuckets_) :
             micro.volumeBuckets_[i] > micro.bucketSize_ * FP
       /\ metrics.vpin > 0
       /\ metrics.imbalance > 0
       /\ metrics.toxicity > 0 /\ metrics.toxicity < FP

\* C18: for every equity curve computeMaxDrawdown returns a value >= 0 and
\* computeMaxDrawdownPercent a value in [0,100]; for every return series
\* computeWinRate returns a value in [0,1].
C18_MetricsInRange ==
    /\ stat.maxDrawdown # <<>> => stat.maxDrawdown[1] >= 0
    /\ stat.maxDrawdownPercent # <<>> =>
          /\ stat.maxDrawdownPercent[1] >= 0
          /\ stat.maxDrawdownPercent[1] <= 100 * FP
    /\ stat.winRate # <<>> =>
          /\ stat.winRate[1] >= 0
          /\ stat.winRate[1] <= FP

\* C19 (as claimed): in session mode and in rolling mode, the cumulative
\* volume the calculator reports equals the sum of the volumes of all ticks
\* fed since construction or the last reset().
C19_CumulativeVolumeIsAllVolume ==
    volumeAtVWAP(vwapCalc) = SeqSum(vwapLog.volumes)

\* C19 (amended): in session mode the cumulative volume reported equals the
\* sum of the volumes of all ticks fed since construction or the last
\* reset(); in rolling mode with window N it equals the sum of the volumes
\* of the last N of those ticks (of all of them while fewer than N were fed).
C19_CumulativeVolumeByMode ==
    LET fed == Len(vwapLog.volumes)
        N == vwapCalc.rollingWindow_
    IN volumeAtVWAP(vwapCalc) =
          IF N = 0 THEN SeqSum(vwapLog.volumes)
          ELSE SumRange(vwapLog.volumes, Max(1, fed - N + 1), fed)

\* After a reset() a rolling calculator has been fed more ticks than its
\* window holds and reports the volume of the window, less than the volume
\* fed.
C19_Witness ==
    /\ vwapLog.resets > 0
    /\ vwapCalc.rollingWindow_ > 0
    /\ Len(vwapLog.volumes) > vwapCalc.rollingWindow_
    /\ volumeAtVWAP(vwapCalc) > 0
    /\ volumeAtVWAP(vwapCalc) < SeqSum(vwapLog.volumes)

\* The net quantity of a symbol: the sum of the quantities of its
\* transactions.
NetQuantity(t, symbol) ==
    SeqSum([i \in 1..Len(t.transactions_) |->
               IF t.transactions_[i].symbol = symbol THEN t.transactions_[i].quantity
               ELSE 0])

\* C20: after every addPosition, closePosition and closePartialPosition call
\* no stored position has |quantity| < 1e-8, and hasPosition(symbol) is
\* false whenever the symbol's net quantity is zero.
C20_NoZeroPositionStored ==
    /\ \A symbol \in DOMAIN pnlTracker_.positions_ :
          ~IsZeroQty(pnlTracker_.positions_[symbol].quantity)
    /\ \A symbol \in Symbols :
          NetQuantity(pnlTracker_, symbol) = 0 => ~PnLTracker_hasPosition(pnlTracker_, symbol)

\* C21: when run() has returned the backtester holds no position
\* (currentPosition_ = 0), whatever the ticks and the signals were: a position
\* still open after the last tick has been closed there.
C21_NoPositionAfterRun ==
    btRun.pc = "done" => bt.currentPosition_ = 0

C21_Witness ==
    /\ btRun.pc = "done"
    /\ btRun.endExit
    /\ Len(btRun.historicalData) = MaxBtTicks
    /\ bt.currentPosition_ = 0

\* C22: a run in which the signal is 0 on every tick (the empty tick vector
\* included) returns a result with no trade and every metric 0, and leaves
\* the cash at initialCapital.
C22_NoSignalNoTrade ==
    (btRun.pc = "done" /\ \A i \in 1..Len(btRun.signals) : btRun.signals[i] = 0) =>
        /\ btResult.numTrades = 0
        /\ btResult.trades = <<>>
        /\ btResult.totalPnL = 0 /\ btResult.totalReturn = 0
        /\ btResult.sharpeRatio = 0 /\ btResult.maxDrawdown = 0
        /\ btResult.winRate = 0
        /\ btResult.numWinningTrades = 0 /\ btResult.numLosingTrades = 0
        /\ btResult.avgWin = 0 /\ btResult.avgLoss = 0
        /\ btResult.profitFactor = 0 /\ btResult.expectancy = 0
        /\ bt.currentCash_ = config_.initialCapital

C22_Witness ==
    /\ btRun.pc = "done"
    /\ Len(btRun.signals) = MaxBtTicks
    /\ \A i \in 1..Len(btRun.signals) : btRun.signals[i] = 0
    /\ btResult.numTrades = 0

\* Tick vectors and signals of a later run on the same Backtester: a long
\* round trip and a short entry answered by a buy.
BtLaterRuns ==
    {[historicalData |-> <<[symbol |-> BtSymbol, price |-> 90 * FP, timestamp |-> 1],
                           [symbol |-> BtSymbol, price |-> 110 * FP, timestamp |-> 2]>>,
      signals |-> <<s, -s>>] : s \in {-1, 1}}

\* C28: run() on a Backtester that has already run returns what it returns on
\* a freshly constructed one: the same ticks and signals again give the result
\* just returned, and any later run gives the result of a first run.
C28_RunIndependentOfEarlierRuns ==
    btRun.pc = "done" =>
        /\ Backtester_run(config_, bt, btRun.historicalData, btRun.signals).result
              = btResult
        /\ \A r \in BtLaterRuns :
              Backtester_run(config_, bt, r.historicalData, r.signals).result
                 = Backtester_run(config_, Backtester_new(config_),
                                  r.historicalData, r.signals).result

C28_Witness ==
    /\ btRun.pc = "done"
    /\ btResult.numTrades > 0
    /\ bt.currentCash_ # config_.initialCapital
    /\ bt.pnlTracker_ # PnLTracker_new(config_.initialCapital)

\* The test slices walkForward is to run on: one for every start i in
\* {0, test, 2*test, ...} with i + train + test <= |data|.
WalkWindows(w) ==
    {i \in 0..Len(w.historicalData) :
        /\ i % w.testPeriod = 0
        /\ i + w.trainPeriod + w.testPeriod <= Len(w.historicalData)}

\* C27: walkForward returns one result for every such window, in increasing
\* order of i, each the result of run() on exactly the slice
\* [i+train, i+train+test) of the data.
C27_WalkForwardCoversEveryWindow ==
    btWalk.pc = "done" =>
        /\ Len(btWalk.results) = Cardinality(WalkWindows(btWalk))
        /\ \A k \in 1..Len(btWalk.results) :
              LET i == (k - 1) * btWalk.testPeriod
                  from == i + btWalk.trainPeriod
                  to == i + btWalk.trainPeriod + btWalk.testPeriod
              IN /\ btWalk.slices[k] = [from |-> from, to |-> to]
                 /\ btWalk.results[k] =
                       Backtester_run(config_, Backtester_new(config_),
                                      SubSeq(btWalk.historicalData, from + 1, to),
                                      SubSeq(btWalk.signals, from + 1, to)).result

\* C23: without quotes the first tick after construction or reset() is
\* classified UNKNOWN, and every later tick BUY if its price is above the
\* previous tick's price, SELL if it is below, and as the previous tick if
\* the two prices are equal.
C23_TickRule ==
    /\ Len(micro.classifiedTrades_) = Len(micro.tradeHistory_)
    /\ \A k \in 1..Len(micro.classifiedTrades_) :
          LET side == micro.classifiedTrades_[k].side
              price == micro.tradeHistory_[k].price
          IN IF k = 1 THEN side = "UNKNOWN"
             ELSE LET previous == micro.tradeHistory_[k - 1].price
                  IN /\ price > previous => side = "BUY"
                     /\ price < previous => side = "SELL"
                     /\ price = previous => side = micro.classifiedTrades_[k - 1].side

\* C24: the worker holds the queue mutex only between its lock_guard and the
\* pop; while writeToInflux (or the sleep) is in progress the mutex is not the
\* worker's, so a writeAsync call is never kept waiting by the write.
C24_NoMutexDuringWrite ==
    /\ influx.queueMutex_ = "worker" <=> threads.worker.pc = "locked"
    /\ threads.worker.pc = "write" => influx.queueMutex_ # "worker"

C24_Witness ==
    /\ threads.worker.pc = "write"
    /\ \E p \in Producers : /\ threads.producer[p].pc = "locked"
                            /\ influx.queueMutex_ = p

\* The pushes whose record is in the queue, in the worker's hands, or has
\* been handed to writeToInflux.
QueuedSeqs == {influx.writeQueue_[i].seq : i \in 1..Len(influx.writeQueue_)}

InHandSeqs == IF threads.worker.pc = "write" THEN {threads.worker.seq} ELSE {}

\* C29: a record is handed to writeToInflux at most once and is then neither
\* in the queue nor in the worker's hands, whether the write succeeded or
\* failed; and the worker stops only when running_ has been cleared, never
\* because a write failed.
C29_WrittenAtMostOnce ==
    /\ \A i, j \in 1..Len(influxLog.written) :
          i # j => influxLog.written[i].seq # influxLog.written[j].seq
    /\ \A i \in 1..Len(influxLog.written) :
          influxLog.written[i].seq \notin QueuedSeqs \cup InHandSeqs
    /\ QueuedSeqs \cap InHandSeqs = {}
    /\ threads.worker.pc = "exited" => ~influx.running_

C29_Witness ==
    /\ Len(influxLog.written) = 2
    /\ ~influxLog.written[1].ok
    /\ influxLog.written[2].ok
    /\ influx.running_

\* C25: while fewer than 2 * hurstLag prices have been received since
\* construction or reset(), getMetrics() returns regime UNKNOWN, hurstExponent
\* 0.5 and autocorrelation, volatility and trendStrength 0, and
\* getSignalWeights() returns the neutral weights (0.5, 0.5, 0.5, 1.0).
C25_NeutralUntilEnoughPrices ==
    regimeLog.received < 2 * detector.hurstLag_ =>
        LET metrics == RegimeDetector_getMetrics(detector)
            weights == RegimeDetector_getSignalWeights(detector)
        IN /\ metrics.regime = "UNKNOWN"
           /\ metrics.hurstExponent = FP \div 2
           /\ metrics.autocorrelation = 0
           /\ metrics.volatility = 0
           /\ metrics.trendStrength = 0
           /\ weights = [momentumWeight |-> FP \div 2, meanRevWeight |-> FP \div 2,
                         breakoutWeight |-> FP \div 2, volatilityAdjust |-> FP]

C25_Witness ==
    /\ detector.hurstLag_ = 2
    /\ regimeLog.received = 3
    /\ Len(detector.prices_) = 3
    /\ RegimeDetector_getMetrics(detector).regime = "UNKNOWN"

\* C26: after the k-th onTick of an AlphaEngine with windowSize N the window
\* holds exactly the last min(k, N) ticks, sumPrices_ and sumSquares_ are the
\* sums of the prices and of the squared prices of those ticks, a signal was
\* returned iff k >= N, and its momentum is taken against the oldest tick
\* still in the window.
C26_WindowAndSums ==
    LET k == Len(alphaLog.ticks)
        m == Min(k, alphaEngine.windowSize_)
        held == SubSeq(alphaLog.ticks, k - m + 1, k)
    IN /\ alphaEngine.window_ = held
       /\ alphaEngine.sumPrices_ = SeqSum([i \in 1..m |-> held[i].price])
       /\ alphaEngine.sumSquares_ =
             SeqSum([i \in 1..m |-> Mul(held[i].price, held[i].price)])
       /\ k >= 1 => (alphaLog.signal # <<>> <=> k >= alphaEngine.windowSize_)
       /\ alphaLog.signal # <<>> =>
             alphaLog.signal[1].momentum = Div(held[m].price, held[1].price) - FP

C26_Witness ==
    /\ alphaEngine.windowSize_ = 3
    /\ Len(alphaLog.ticks) = 5
    /\ alphaLog.signal # <<>>
    /\ alphaLog.ticks[1].price # alphaLog.ticks[3].price
    /\ alphaLog.signal[1].momentum # 0

\* C30: when every trade has been followed by updatePrice of its symbol at
\* the trade's price, the totalPnL of getPortfolioMetrics() (realized plus
\* unrealized) equals totalValue - initialCash.
C30_PnLIsValueChange ==
    pnlTrade = <<>> =>
        LET metrics == PnLTracker_getPortfolioMetrics(pnlTracker_)
        IN metrics.totalPnL = metrics.totalValue - pnlTracker_.initialCash_

\* The quantity the tracker holds for a symbol, 0 when it holds none.
TrackerQuantity(t, symbol) ==
    IF symbol \in DOMAIN t.positions_ THEN t.positions_[symbol].quantity ELSE 0

\* C31: after every tick processed by run() the quantity the PnLTracker holds
\* for the symbol equals currentPosition_, and the tracker holds no position
\* when currentPosition_ = 0.
C31_TrackerFollowsPosition ==
    btRun.pc = "loop" =>
        /\ TrackerQuantity(bt.pnlTracker_, BtSymbol) = bt.currentPosition_
        /\ bt.currentPosition_ = 0 => ~PnLTracker_hasPosition(bt.pnlTracker_, BtSymbol)

\* The positions opened during the run: one addPosition per enterPosition
\* (the tracker's transactions are cleared when run() begins).
PositionsOpened(t) ==
    Cardinality({i \in 1..Len(t.transactions_) : t.transactions_[i].type # "CLOSE"})

\* C32: every position closed during a run, by a -1 signal, by a reversal or
\* by the close at the end of the data, contributes exactly one Trade, so the
\* result's numTrades equals the number of positions that were opened.
C32_OneTradePerPosition ==
    btRun.pc = "done" =>
        /\ btResult.numTrades = PositionsOpened(bt.pnlTracker_)
        /\ Len(btResult.trades) = btResult.numTrades

\* C33: with margin trading disabled, maxPositionSize in (0,1] and
\* commissionRate and slippageBps >= 0, currentCash_ is never negative:
\* canEnterPosition admits only entries whose full cost, slippage and
\* commission included, is covered by the cash.
C33_CashNeverNegative ==
    ~config_.enableMarginTrading => bt.currentCash_ >= 0

\* C34: after every onTrade the OrderFlowImbalance holds one timestamp per
\* retained trade, |timestamps_| = |buyVolumes_| + |sellVolumes_| <= window,
\* and a price for every retained volume.
C34_OneTimestampPerTrade ==
    /\ Len(soak.ofi.timestamps_) = Len(soak.ofi.buyVolumes_) + Len(soak.ofi.sellVolumes_)
    /\ Len(soak.ofi.timestamps_) <= soak.ofi.window_
    /\ Len(soak.ofi.buyPrices_) = Len(soak.ofi.buyVolumes_)
    /\ Len(soak.ofi.sellPrices_) = Len(soak.ofi.sellVolumes_)

\* The volumes of the candles handed to onCandleClosed so far.
EmittedVolume == SeqSum([i \in 1..Len(emitted) |-> emitted[i].volume])

C36_BucketImbalanceBounded ==
    \A i \in 1..Len(micro.volumeBuckets_) :
        /\ 0 <= micro.volumeBuckets_[i]
        /\ micro.volumeBuckets_[i] <= micro.bucketSize_ * FP

\* C37: fed through onTick, a regime classified the same on 5 or more
\* consecutive evaluated ticks has confidence 1.0.
C37_StableRegimeFullConfidence ==
    regimeLog.sameRun >= 5 => RegimeDetector_getMetrics(detector).confidence = 1 * FP

BaseRegimes ==
    {"TRENDING_HIGH_VOL", "TRENDING_LOW_VOL", "MEAN_REVERTING_HIGH_VOL",
     "MEAN_REVERTING_LOW_VOL"}

\* C38: once a price has been processed with at least 2*hurstLag prices in the
\* window, currentRegime_ is one of the four base regimes (never UNKNOWN, never
\* TRANSITIONING) until reset(), and a non-empty regimeHistory_ ends with
\* currentRegime_.
C38_BaseRegimeOnceEvaluated ==
    /\ regimeLog.evaluated => detector.currentRegime_ \in BaseRegimes
    /\ detector.regimeHistory_ # <<>> =>
           Last(detector.regimeHistory_) = detector.currentRegime_

\* C38: the regime has changed between evaluated ticks, and a tick that kept it
\* followed.
C38_Witness ==
    /\ regimeLog.evaluated
    /\ regimeLog.sameRun >= 2
    /\ Len(detector.regimeHistory_) >= 2
    /\ detector.currentRegime_ \in BaseRegimes
    /\ Last(detector.regimeHistory_) = detector.currentRegime_

\* C39: walkForward terminates for every data vector, every trainPeriod >= 0
\* and every testPeriod >= 0, testPeriod = 0 included: a call that has entered
\* the loop eventually returns.
C39_WalkForwardTerminates == (btWalk.pc = "loop") ~> (btWalk.pc = "done")

\* C40: when flush() returns, every record enqueued before the call has been
\* handed to writeToInflux and that write has completed: no record is still in
\* the worker's hands at the step on which flush() returns.
C40_FlushLeavesNothingInFlight ==
    [][(threads.flusher = "locked" /\ threads'.flusher = "returned")
          => InHandSeqs = {}]_vars

====
